---- MODULE Spec2Model ----
(***************************************************************************)
(* Activity synchronisation engine of smart-trainer (Strava side):         *)
(* the in-process rate limiter (services/strava_client.py), the token      *)
(* manager, the interactive sync-or-enqueue policy and the queue worker    *)
(* tick (services/strava_sync.py).                                         *)
(*                                                                         *)
(* One step of an actor is the code between two suspension points of the   *)
(* event loop; synchronous code (the limiter's check and record) is never  *)
(* interleaved.  Database tables are functions keyed by their primary or   *)
(* unique key; NULL columns hold NULL.  Time is the wall clock in seconds. *)
(***************************************************************************)
EXTENDS Integers, Sequences, FiniteSets, Bags, TLC

\* ---------------------------------------------------------------- constants

NULL == 0 - 1

LIMIT_15MIN == 200
LIMIT_DAILY == 2000
THRESHOLD_15MIN == 180
THRESHOLD_DAILY == 1900
WINDOW_15MIN == 15 * 60
WINDOW_DAILY == 86400
PER_PAGE == 200
ERROR_MESSAGE_MAX == 500

\* ---------------------------------------------------------------- bounds

\* wall clock when the model run starts
InitNow == 10000
\* the clock is advanced at most this many times
MaxAdvances == 2
\* activity-list requests made during a run (the limiter's lists are unbounded)
MaxCalls == 3
\* rows ever inserted into strava_sync_queue
MaxJobs == 2
\* the provider's data ends on this page at the latest
MaxPages == 2

\* by how much the clock may jump between two steps
AdvanceSteps == {300, WINDOW_15MIN, WINDOW_DAILY}
Users == {1}
\* the coroutines: queue worker ticks and interactive sync requests
Workers == {"w1", "w2"}
Requests == {"r1"}
Actors == Workers \cup Requests

\* access tokens and refresh secrets the provider may hand out
Tokens == {1, 2}
Secrets == {1, 2}

VARIABLES
    now,            \* time.time() / datetime.now(timezone.utc)
    advances,       \* how often the clock was advanced
    usage15,        \* _usage_15min: bag of request timestamps
    usageDaily,     \* _usage_daily: bag of request timestamps
    calls,          \* history: bag of the timestamps of every request recorded
    ncalls,         \* history: requests recorded during the run
    creds,          \* strava_credentials, keyed by user_id
    activities,     \* strava_activities: set of <<user_id, strava_id>>
    queue,          \* strava_sync_queue, keyed by id
    nextJobId,      \* the autoincrement of strava_sync_queue.id
    claims,         \* history: how many ticks flipped job id to running
    pc,             \* where each actor is
    loc,            \* each actor's local variables
    result,         \* what the actor's call returned
    tok,            \* history: the last call of _ensure_access_token (token spec)
    workouts,       \* workouts, keyed by id
    nextWorkoutId,  \* the autoincrement of workouts.id
    up,             \* each FIT upload request in flight: its position and locals
    ingested,       \* history: the ingestions the store has completed, in order
    obs             \* history: the last function application observed

vars == <<now, advances, usage15, usageDaily, calls, ncalls, creds,
          activities, queue, nextJobId, claims, pc, loc, result, tok,
          workouts, nextWorkoutId, up, ingested, obs>>

\* the variables of the sync engine and those of the workout store
engineVars == <<now, advances, usage15, usageDaily, calls, ncalls, creds,
                activities, queue, nextJobId, claims, pc, loc, result, tok>>
storeVars == <<workouts, nextWorkoutId, up, ingested, obs>>

\* ---------------------------------------------------------------- helpers

Truthy(x) == x /= NULL /\ x /= 0

Min(a, b) == IF a < b THEN a ELSE b

\* the entries of a timestamp bag that are newer than cutoff
NewerThan(u, cutoff) == [t \in {x \in DOMAIN u : x > cutoff} |-> u[t]]

\* a bag with n copies of t (no entry when n = 0)
Copies(t, n) == IF n > 0 THEN [x \in {t} |-> n] ELSE EmptyBag

\* ---------------------------------------------------------------- rate limiter

\* _trim_usage: the two list comprehensions
\* (variant: the 15-minute list trimmed with the daily cutoff)
TrimUsage15_DailyCutoff(u, t) == NewerThan(u, t - WINDOW_DAILY)
TrimUsage15(u, t) == NewerThan(u, t - WINDOW_15MIN)
TrimUsageDaily(u, t) == NewerThan(u, t - WINDOW_DAILY)

\* the comparison of strava_can_make_request, on trimmed lists
\* (variant: <= where the code has <)
UnderThreshold_OffByOne(u15, ud) ==
    BagCardinality(u15) <= THRESHOLD_15MIN /\ BagCardinality(ud) <= THRESHOLD_DAILY
UnderThreshold(u15, ud) ==
    BagCardinality(u15) < THRESHOLD_15MIN /\ BagCardinality(ud) < THRESHOLD_DAILY

\* the value strava_can_make_request() returns when called now
strava_can_make_request ==
    UnderThreshold(TrimUsage15(usage15, now), TrimUsageDaily(usageDaily, now))

\* strava_record_request, applied to a list
RecordRequest(u, t) == u (+) SetToBag({t})

\* ---------------------------------------------------------------- crypto

\* encrypt_value / decrypt_value: Fernet; "" (NULL here) for an empty or
\* undecryptable input
encrypt_value(v) == IF ~Truthy(v) THEN <<"empty", NULL>> ELSE <<"fernet", v>>
decrypt_value(e) == IF e[1] = "fernet" THEN e[2] ELSE NULL

\* ---------------------------------------------------------------- token manager

\* what the token endpoint may answer at time t
\* (status 500 stands for any non-401 HTTPStatusError)
TokenResponses(t, accessSet, refreshSet, expirySet) ==
    [status : {200}, access_token : accessSet, refresh_token : refreshSet,
     expires_at : expirySet]
    \cup [status : {401, 500}, access_token : {NULL}, refresh_token : {NULL},
          expires_at : {NULL}]

\* creds.access_token and creds.expires_at and creds.expires_at > now
\* (variant: a token expiring this very second still counts as fresh)
TokenIsFresh_Inclusive(c, t) ==
    Truthy(c.access_token) /\ c.expires_at /= NULL /\ c.expires_at >= t
TokenIsFresh(c, t) ==
    Truthy(c.access_token) /\ c.expires_at /= NULL /\ c.expires_at > t

\* _ensure_access_token on the credentials row c at time t, the token endpoint
\* answering resp when it is called.
\*   outcome: "cached" | "refreshed" (normal returns)
\*            "decrypt" | "revoked" | "http" (raises)
EnsureAccessToken(c, t, resp) ==
    IF TokenIsFresh(c, t)
    THEN [outcome |-> "cached", called |-> FALSE, row |-> c, token |-> c.access_token]
    ELSE IF ~Truthy(decrypt_value(c.encrypted_refresh_token))
    THEN [outcome |-> "decrypt", called |-> FALSE, row |-> c, token |-> NULL]
    ELSE IF resp.status = 401
    THEN [outcome |-> "revoked", called |-> TRUE, row |-> c, token |-> NULL]
    ELSE IF resp.status /= 200
    THEN [outcome |-> "http", called |-> TRUE, row |-> c, token |-> NULL]
    ELSE LET c1 == IF Truthy(resp.access_token)
                   THEN [c EXCEPT
                           !.access_token = resp.access_token,
                           !.expires_at =
                               IF Truthy(resp.expires_at) THEN resp.expires_at ELSE @,
                           !.encrypted_refresh_token =
                               IF Truthy(resp.refresh_token)
                               THEN encrypt_value(resp.refresh_token) ELSE @]
                   ELSE c
         IN [outcome |-> "refreshed", called |-> TRUE, row |-> c1,
             token |-> IF Truthy(c1.access_token) THEN c1.access_token
                       ELSE resp.access_token]

\* ---------------------------------------------------------------- tables

NoMessage == [kind |-> "null", len |-> 0]
NoError == [kind |-> "none", len |-> 0]

\* str(e) of the exceptions a sync run raises: its text is modelled by its
\* origin and its length
DecryptError == [kind |-> "decrypt", len |-> 38]
RevokedError == [kind |-> "revoked", len |-> 36]
\* an HTTPStatusError or timeout of a provider call, or a database error:
\* a text longer than the 500 characters kept
HttpErrors(status) ==
    {[kind |-> IF status = 401 THEN "http401" ELSE "http5xx", len |-> n] :
        n \in {ERROR_MESSAGE_MAX + 1}}

\* str(e)[:500]
Truncate(msg) == [msg EXCEPT !.len = Min(@, ERROR_MESSAGE_MAX)]

\* StravaSyncQueue(user_id=u, status="pending"), requested_at defaulting to now
\* (variant: the row is inserted already running)
NewJob_Running(u, t) ==
    [user |-> u, status |-> "running", requested_at |-> t, started_at |-> NULL,
     finished_at |-> NULL, error_message |-> NoMessage]
NewJob(u, t) ==
    [user |-> u, status |-> "pending", requested_at |-> t, started_at |-> NULL,
     finished_at |-> NULL, error_message |-> NoMessage]

\* a function without the keys in ks
Without(f, ks) == [k \in DOMAIN f \ ks |-> f[k]]

\* select(StravaSyncQueue).where(status == "pending").order_by(requested_at).limit(1):
\* the candidates for the one row returned (ties are the database's choice)
\* (variant: ordered by requested_at descending)
OldestPending_Newest(q) ==
    {j \in DOMAIN q :
        /\ q[j].status = "pending"
        /\ \A k \in DOMAIN q :
              q[k].status = "pending" => q[j].requested_at >= q[k].requested_at}
OldestPending(q) ==
    {j \in DOMAIN q :
        /\ q[j].status = "pending"
        /\ \A k \in DOMAIN q :
              q[k].status = "pending" => q[j].requested_at <= q[k].requested_at}

\* the three deletes of the revocation teardown (and of /strava/unlink)
ActivitiesWithout(acts, uid) == {r \in acts : r[1] /= uid}
CredsWithout(c, uid) == Without(c, {uid})
\* (variant: only the user's pending jobs are deleted)
QueueWithout_PendingOnly(q, uid) ==
    Without(q, {j \in DOMAIN q : q[j].user = uid /\ q[j].status = "pending"})
QueueWithout(q, uid) == Without(q, {j \in DOMAIN q : q[j].user = uid})

\* ---------------------------------------------------------------- actors

Idle ==
    [user |-> NULL, job |-> NULL, page |-> 0, all |-> <<>>, err |-> NoError,
     refreshes |-> 0]

\* the rows of strava_activities a fetched list turns into: one representative
\* activity per non-empty page, keyed (user_id, strava_id)
Rows(u, all) == {<<u, all[i][1]>> : i \in {k \in DOMAIN all : all[k][2] > 0}}

\* the ON CONFLICT (user_id, strava_id) DO UPDATE upsert
Upsert(acts, rows) == acts \cup rows

\* the tick's final write of job j on queue q. The row may be gone: deleted by
\* this session's own teardown (the object was expunged, the flush writes
\* nothing) or by another session.
FinishDone(q, j, t) ==
    IF j \in DOMAIN q
    THEN [q EXCEPT ![j].status = "done", ![j].finished_at = t]
    ELSE q

FinishFailed(q, j, t, msg) ==
    IF j \in DOMAIN q
    THEN [q EXCEPT ![j].status = "failed", ![j].finished_at = t,
                   ![j].error_message = msg]
    ELSE q

\* what the tick's caller sees after the final flush: True, or the flush's
\* StaleDataError when another session deleted the row
TickResult(q, j, own) == IF j \in DOMAIN q \/ own THEN "true" ELSE "raised"

\* ---------------------------------------------------------------- provider inputs

\* seconds a freshly issued access token lives
ExpiresIn == 600

\* the token endpoint as the engine sees it: a well-formed grant, 401 or 5xx
EngineTokenResponses(t) == TokenResponses(t, {1}, {NULL}, {t + ExpiresIn})

\* the activity-list endpoint on page p: an error status, or a list of n items
PageResponses(p) ==
    [status : {401, 500}, n : {0}]
    \cup [status : {200}, n : IF p < MaxPages THEN {0, 1, PER_PAGE} ELSE {0, 1}]

\* the credentials rows a linked user may start with
InitRows ==
    [access_token : {1}, expires_at : {InitNow},
     encrypted_refresh_token : {encrypt_value(1), <<"corrupt", NULL>>}]

\* the limiter's lists when the run starts: <<recent, old>> requests already
\* recorded, the recent ones at InitNow, the old ones in ten earlier bursts more
\* than a window apart (a history the limiter itself allows)
Prepop ==
    {<<0, 0>>, <<THRESHOLD_15MIN - 1, 0>>,
     <<THRESHOLD_15MIN - 1, (THRESHOLD_DAILY - THRESHOLD_15MIN) \div 10>>}

OldStamps == {InitNow - k * 1000 : k \in 1..10}

\* n requests at each of the old timestamps
OldBursts(n) == IF n > 0 THEN [t \in OldStamps |-> n] ELSE EmptyBag

\* ---------------------------------------------------------------- workout store

\* the FIT upload requests that may overlap
Uploaders == {"u1", "u2"}

NoUpload == [pc |-> "idle", file |-> NULL, match |-> NULL, loaded |-> NULL]
NoObs == [kind |-> "none"]

\* no workout stored, no upload in flight
StoreEmpty ==
    /\ workouts = <<>>
    /\ nextWorkoutId = 1
    /\ up = [a \in Uploaders |-> NoUpload]
    /\ ingested = <<>>
    /\ obs = NoObs

\* ---------------------------------------------------------------- reconciliation

\* matching tolerances, in per cent (0.02, 0.05, 0.02), and the start window
DURATION_TOLERANCE == 2
TSS_TOLERANCE == 5
DISTANCE_TOLERANCE == 2
START_WINDOW_SEC == 5 * 60
\* timedelta(days=1), in seconds
DAY_SEC == 24 * 3600

\* a NULL text column (None where Python has a str)
NoText == "NULL"

Abs(x) == IF x < 0 THEN 0 - x ELSE x
Max(a, b) == IF a > b THEN a ELSE b

\* _within_tolerance on whole numbers; with exactly one side 0 the code asks for
\* abs(va - vb) < 1e-6, which no two distinct whole numbers satisfy
within_tolerance(a, b, tol) ==
    IF a = NULL /\ b = NULL THEN TRUE
    ELSE IF a = NULL \/ b = NULL THEN FALSE
    ELSE IF a = 0 /\ b = 0 THEN TRUE
    ELSE IF a = 0 \/ b = 0 THEN FALSE
    ELSE Abs(a - b) * 100 <= tol * Max(Abs(a), Abs(b))

\* an aware datetime is [t |-> instant in seconds, off |-> UTC offset in
\* seconds]; start_date.replace(hour=0, minute=0, second=0, microsecond=0) is the
\* instant of midnight in the datetime's own offset
DayStart(dt) == dt.t - ((dt.t + dt.off) % DAY_SEC)

\* mutant: the query leaves out the user
SameDayRows_AnyUser(ws, uid, start) ==
    {i \in DOMAIN ws :
        /\ ws[i].start_date >= DayStart(start)
        /\ ws[i].start_date < DayStart(start) + DAY_SEC}

\* the rows the query of _find_matching_workout selects (timestamptz columns
\* compare as instants)
SameDayRows(ws, uid, start) ==
    {i \in DOMAIN ws :
        /\ ws[i].user = uid
        /\ ws[i].start_date >= DayStart(start)
        /\ ws[i].start_date < DayStart(start) + DAY_SEC}

\* mutant: a start exactly 5 minutes away is no longer inside the window
Accepts_OpenWindow(row, start, duration_sec, tss, distance_m) ==
    \/ Abs(row.start_date - start.t) < START_WINDOW_SEC
    \/ /\ ~( (duration_sec /= NULL \/ row.duration_sec /= NULL)
             /\ ~within_tolerance(duration_sec, row.duration_sec, DURATION_TOLERANCE) )
       /\ ~( (tss /= NULL \/ row.tss /= NULL)
             /\ ~within_tolerance(tss, row.tss, TSS_TOLERANCE) )
       /\ ~( (distance_m /= NULL \/ row.distance_m /= NULL)
             /\ ~within_tolerance(distance_m, row.distance_m, DISTANCE_TOLERANCE) )
       /\ \/ duration_sec /= NULL \/ tss /= NULL \/ distance_m /= NULL
          \/ row.duration_sec /= NULL \/ row.tss /= NULL \/ row.distance_m /= NULL

\* the body of the loop of _find_matching_workout: does it return this row
Accepts(row, start, duration_sec, tss, distance_m) ==
    \/ Abs(row.start_date - start.t) <= START_WINDOW_SEC
    \/ /\ ~( (duration_sec /= NULL \/ row.duration_sec /= NULL)
             /\ ~within_tolerance(duration_sec, row.duration_sec, DURATION_TOLERANCE) )
       /\ ~( (tss /= NULL \/ row.tss /= NULL)
             /\ ~within_tolerance(tss, row.tss, TSS_TOLERANCE) )
       /\ ~( (distance_m /= NULL \/ row.distance_m /= NULL)
             /\ ~within_tolerance(distance_m, row.distance_m, DISTANCE_TOLERANCE) )
       /\ \/ duration_sec /= NULL \/ tss /= NULL \/ distance_m /= NULL
          \/ row.duration_sec /= NULL \/ row.tss /= NULL \/ row.distance_m /= NULL

\* _find_matching_workout: the ids it may return, the first accepted row in
\* start_date descending order (ties are the database's choice); {} for None
find_matching_workout(ws, uid, start, duration_sec, tss, distance_m) ==
    LET ok == {i \in SameDayRows(ws, uid, start) :
                  Accepts(ws[i], start, duration_sec, tss, distance_m)}
    IN {i \in ok : \A j \in ok : ws[j].start_date <= ws[i].start_date}

\* JSON values of the raw bag: [t |-> tag, v |-> payload]
JNull == [t |-> "null", v |-> 0]
JNum(n) == [t |-> "num", v |-> n]
JStr(x) == [t |-> "str", v |-> x]
JList(l) == [t |-> "list", v |-> l]
JDict(f) == [t |-> "dict", v |-> f]

\* a nullable number or text as a JSON value
JOfNum(n) == IF n = NULL THEN JNull ELSE JNum(n)
JOfText(x) == IF x = NoText THEN JNull ELSE JStr(x)

\* merge_raw: deep merge of incoming into existing
RECURSIVE merge_raw(_, _)
\* mutant: an incoming series is appended to the existing one
merge_raw_ExtendSeries(existing, incoming) ==
    LET out == IF existing.t = "dict" THEN existing.v ELSE <<>>
    IN IF incoming.t /= "dict" \/ DOMAIN incoming.v = {}
       THEN JDict(out)
       ELSE LET inc == incoming.v
                set == {k \in DOMAIN inc : inc[k].t /= "null"}
            IN JDict([k \in DOMAIN out \cup set |->
                  IF k \notin set THEN out[k]
                  ELSE IF k = "series" /\ k \in DOMAIN out /\ out[k].t = "list"
                  THEN IF inc[k].t = "list" /\ inc[k].v /= <<>>
                       THEN JList(out[k].v \o inc[k].v) ELSE out[k]
                  ELSE IF inc[k].t = "dict" /\ k \in DOMAIN out /\ out[k].t = "dict"
                  THEN merge_raw(out[k], inc[k])
                  ELSE inc[k]])

merge_raw(existing, incoming) ==
    LET out == IF existing.t = "dict" THEN existing.v ELSE <<>>
    IN IF incoming.t /= "dict" \/ DOMAIN incoming.v = {}
       THEN JDict(out)
       ELSE LET inc == incoming.v
                set == {k \in DOMAIN inc : inc[k].t /= "null"}
            IN JDict([k \in DOMAIN out \cup set |->
                  IF k \notin set THEN out[k]
                  ELSE IF k = "series" /\ k \in DOMAIN out /\ out[k].t = "list"
                  THEN IF inc[k].t = "list" /\ inc[k].v /= <<>>
                       THEN inc[k] ELSE out[k]
                  ELSE IF inc[k].t = "dict" /\ k \in DOMAIN out /\ out[k].t = "dict"
                  THEN merge_raw(out[k], inc[k])
                  ELSE inc[k]])

\* the keyword arguments of _merge_workout_fields that were not given
NoFields ==
    [name |-> NoText, type |-> NoText, duration_sec |-> NULL, distance_m |-> NULL,
     tss |-> NULL, notes |-> NoText, raw |-> JNull, fit_checksum |-> NoText,
     source |-> NoText]

\* mutant: incoming values only fill the fields that are null
merge_workout_fields_FillOnly(existing, inc) ==
    [existing EXCEPT
        !.name = IF @ = NoText THEN inc.name ELSE @,
        !.type = IF @ = NoText THEN inc.type ELSE @,
        !.duration_sec = IF @ = NULL THEN inc.duration_sec ELSE @,
        !.distance_m = IF @ = NULL THEN inc.distance_m ELSE @,
        !.tss = IF @ = NULL THEN inc.tss ELSE @,
        !.notes = IF @ = NoText THEN inc.notes ELSE @,
        !.fit_checksum = IF @ = NoText THEN inc.fit_checksum ELSE @,
        !.source = IF @ = NoText THEN inc.source ELSE @,
        !.raw = IF inc.raw.t /= "null" THEN merge_raw(@, inc.raw) ELSE @]

\* _merge_workout_fields: non-null incoming values overwrite, raw is deep-merged
merge_workout_fields(existing, inc) ==
    [existing EXCEPT
        !.name = IF inc.name /= NoText THEN inc.name ELSE @,
        !.type = IF inc.type /= NoText THEN inc.type ELSE @,
        !.duration_sec = IF inc.duration_sec /= NULL THEN inc.duration_sec ELSE @,
        !.distance_m = IF inc.distance_m /= NULL THEN inc.distance_m ELSE @,
        !.tss = IF inc.tss /= NULL THEN inc.tss ELSE @,
        !.notes = IF inc.notes /= NoText THEN inc.notes ELSE @,
        !.fit_checksum = IF inc.fit_checksum /= NoText THEN inc.fit_checksum ELSE @,
        !.source = IF inc.source /= NoText THEN inc.source ELSE @,
        !.raw = IF inc.raw.t /= "null" THEN merge_raw(@, inc.raw) ELSE @]

\* ---------------------------------------------------------------- ingestion

\* a function with key id added (or replaced)
Insert(f, id, row) == [i \in DOMAIN f \cup {id} |-> IF i = id THEN row ELSE f[i]]

\* what a handler leaves behind: the table, the id sequence, the row it wrote
\* (NULL when it wrote none) and whether it merged into an existing row
Outcome4(ws, next, id, merged) ==
    [workouts |-> ws, next |-> next, id |-> id, merged |-> merged]

\* create_workout: the keyword arguments it passes to _merge_workout_fields
ManualFields(body, match) ==
    [NoFields EXCEPT
        !.name = IF body.name /= NoText THEN body.name ELSE match.name,
        !.type = IF body.type /= NoText THEN body.type ELSE match.type,
        !.duration_sec =
            IF body.duration_sec /= NULL THEN body.duration_sec ELSE match.duration_sec,
        !.distance_m =
            IF body.distance_m /= NULL THEN body.distance_m ELSE match.distance_m,
        !.tss = IF body.tss /= NULL THEN body.tss ELSE match.tss,
        !.notes = IF body.notes /= NoText THEN body.notes ELSE match.notes,
        !.raw =
            IF \/ body.name /= NoText \/ body.type /= NoText \/ body.notes /= NoText
               \/ body.duration_sec /= NULL \/ body.distance_m /= NULL
               \/ body.tss /= NULL
            THEN JDict([photo |-> JDict(
                    [name |-> JOfText(body.name), type |-> JOfText(body.type),
                     duration_sec |-> JOfNum(body.duration_sec),
                     distance_m |-> JOfNum(body.distance_m),
                     tss |-> JOfNum(body.tss), notes |-> JOfText(body.notes)])])
            ELSE JNull]

\* Workout(user_id=uid, start_date=start, ..., source="manual")
ManualRow(uid, body) ==
    [user |-> uid, start_date |-> body.start_date.t, name |-> body.name,
     type |-> body.type, duration_sec |-> body.duration_sec,
     distance_m |-> body.distance_m, tss |-> body.tss, source |-> "manual",
     external_id |-> NoText, fit_checksum |-> NoText, notes |-> body.notes,
     raw |-> JNull]

\* create_workout, run alone: every store it may leave
create_workout(ws, next, uid, body) ==
    LET ms == find_matching_workout(ws, uid, body.start_date, body.duration_sec,
                                    body.tss, body.distance_m)
    IN IF ms /= {}
       THEN {Outcome4([ws EXCEPT ![m] =
                          merge_workout_fields(@, ManualFields(body, ws[m]))],
                      next, m, TRUE) : m \in ms}
       ELSE {Outcome4(Insert(ws, next, ManualRow(uid, body)), next + 1, next, FALSE)}

\* (data.get("sport") or "Workout").capitalize()
Capitalize(x) ==
    CASE x = "running" -> "Running"
      [] x = "cycling" -> "Cycling"
      [] OTHER -> x
SportName(file) == IF file.sport = NoText THEN "Workout" ELSE Capitalize(file.sport)

\* DEFAULT_TSS_PER_HOUR, by the sport key _estimate_tss_from_fit derives
TssPerHour(sport) ==
    CASE sport = "running" -> 60
      [] sport = "cycling" -> 55
      [] OTHER -> 50

\* _estimate_tss_from_fit for a file without power data (data.get("duration_sec")
\* or 0 is the duration); the durations used make the quotient exact
estimate_tss_from_fit(duration_sec, sport) ==
    IF ~Truthy(duration_sec) THEN 0
    ELSE (duration_sec * TssPerHour(sport)) \div 3600

\* upload_fit: fit_raw, the parsed raw bag with the series merged in
FitRaw(file) ==
    LET base == IF file.raw.t = "dict" /\ DOMAIN file.raw.v /= {}
                THEN file.raw ELSE JDict(<<>>)
    IN IF file.series.t = "list" /\ file.series.v /= <<>>
       THEN merge_raw(base, JDict([series |-> file.series]))
       ELSE base

\* upload_fit: the keyword arguments it passes to _merge_workout_fields
FitFields(file) ==
    [NoFields EXCEPT
        !.name = SportName(file),
        !.type = SportName(file),
        !.duration_sec = IF Truthy(file.duration_sec) THEN file.duration_sec ELSE NULL,
        !.distance_m = file.distance_m,
        !.tss = IF estimate_tss_from_fit(file.duration_sec, file.sport) > 0
                THEN estimate_tss_from_fit(file.duration_sec, file.sport) ELSE NULL,
        !.raw = FitRaw(file),
        !.fit_checksum = file.checksum,
        !.source = "fit"]

\* Workout(user_id=uid, start_date=start_date, ..., source="fit")
FitRow(uid, file) ==
    LET f == FitFields(file) IN
    [user |-> uid, start_date |-> file.start_date.t, name |-> f.name,
     type |-> f.type, duration_sec |-> f.duration_sec, distance_m |-> f.distance_m,
     tss |-> f.tss, source |-> "fit", external_id |-> NoText,
     fit_checksum |-> file.checksum, notes |-> NoText, raw |-> f.raw]

\* upload_fit: the checksum query finds a row (409, or MultipleResultsFound)
ChecksumTaken(ws, uid, checksum) ==
    \E i \in DOMAIN ws : ws[i].user = uid /\ ws[i].fit_checksum = checksum

\* upload_fit: the rows its call of _find_matching_workout may return
FitMatches(ws, uid, file) ==
    LET f == FitFields(file) IN
    find_matching_workout(ws, uid, file.start_date, f.duration_sec, f.tss, f.distance_m)

\* upload_fit, run alone: every store it may leave (unchanged when refused)
upload_fit(ws, next, uid, file) ==
    IF ChecksumTaken(ws, uid, file.checksum)
    THEN {Outcome4(ws, next, NULL, FALSE)}
    ELSE IF FitMatches(ws, uid, file) /= {}
    THEN {Outcome4([ws EXCEPT ![m] = merge_workout_fields(@, FitFields(file))],
                   next, m, TRUE) : m \in FitMatches(ws, uid, file)}
    ELSE {Outcome4(Insert(ws, next, FitRow(uid, file)), next + 1, next, FALSE)}

\* the flush of an object loaded as `loaded` and changed to `changed`, on a row
\* that is `current` by now: UPDATE sets the columns whose value was changed
FlushRow(current, loaded, changed) ==
    [c \in DOMAIN current |-> IF changed[c] /= loaded[c] THEN changed[c] ELSE current[c]]

\* func.coalesce(excluded.x, Workout.x)
Coalesce(x, y, null) == IF x /= null THEN x ELSE y

\* the row of user uid holding external id ext ({} when there is none)
ByExternalId(ws, uid, ext) ==
    {i \in DOMAIN ws : ws[i].user = uid /\ ws[i].external_id = ext}

\* mutant: the row holding the external id is deleted and inserted anew
UpsertWorkout_Replace(st, uid, a) ==
    LET ws == [i \in DOMAIN st.workouts \ ByExternalId(st.workouts, uid, a.id)
                  |-> st.workouts[i]]
    IN Outcome4(Insert(ws, st.next,
                   [user |-> uid, start_date |-> a.start_date, name |-> a.name,
                    type |-> a.type, duration_sec |-> a.duration_sec,
                    distance_m |-> a.distance_m, tss |-> a.tss,
                    source |-> "intervals", external_id |-> a.id,
                    fit_checksum |-> NoText, notes |-> NoText,
                    raw |-> merge_raw(JNull, a.raw)]),
                st.next + 1, st.next, ws /= st.workouts)

\* sync_intervals_to_db: one row of the INSERT ... ON CONFLICT (user_id,
\* external_id) DO UPDATE, its raw merged with the raw of the existing row
UpsertWorkout(st, uid, a) ==
    LET ws == st.workouts
        es == ByExternalId(ws, uid, a.id)
    IN IF es /= {}
       THEN LET e == CHOOSE i \in es : TRUE IN
            Outcome4([ws EXCEPT ![e] = [@ EXCEPT
                        !.start_date = Coalesce(a.start_date, @, NULL),
                        !.name = Coalesce(a.name, @, NoText),
                        !.type = Coalesce(a.type, @, NoText),
                        !.duration_sec = Coalesce(a.duration_sec, @, NULL),
                        !.distance_m = Coalesce(a.distance_m, @, NULL),
                        !.tss = Coalesce(a.tss, @, NULL),
                        !.raw = merge_raw(ws[e].raw, a.raw)]],
                     st.next, e, TRUE)
       ELSE Outcome4(Insert(ws, st.next,
                        [user |-> uid, start_date |-> a.start_date, name |-> a.name,
                         type |-> a.type, duration_sec |-> a.duration_sec,
                         distance_m |-> a.distance_m, tss |-> a.tss,
                         source |-> "intervals", external_id |-> a.id,
                         fit_checksum |-> NoText, notes |-> NoText,
                         raw |-> merge_raw(JNull, a.raw)]),
                     st.next + 1, st.next, FALSE)

\* sync_intervals_to_db on the fetched activities (a sequence): those without
\* an id or with an id seen before are dropped, the others upserted
RECURSIVE SyncRows(_, _, _, _)
SyncRows(st, uid, acts, seen) ==
    IF acts = <<>> THEN st
    ELSE LET a == Head(acts) IN
         IF a.id = NoText \/ a.id \in seen
         THEN SyncRows(st, uid, Tail(acts), seen)
         ELSE SyncRows(UpsertWorkout(st, uid, a), uid, Tail(acts), seen \cup {a.id})

sync_intervals_to_db(ws, next, uid, acts) ==
    SyncRows(Outcome4(ws, next, NULL, FALSE), uid, acts, {})

\* delete_workout
delete_workout(ws, id) == [i \in DOMAIN ws \ {id} |-> ws[i]]

\* ---------------------------------------------------------------- engine

\* the credentials row of a user who never linked (only a placeholder of tok)
NoRow == [access_token |-> NULL, expires_at |-> NULL,
          encrypted_refresh_token |-> <<"empty", NULL>>]

NoCall ==
    [outcome |-> "none", called |-> FALSE, at |-> NULL, token |-> NULL,
     before |-> NoRow,
     resp |-> [status |-> 0, access_token |-> NULL, refresh_token |-> NULL,
               expires_at |-> NULL]]

InitWith(prepop) ==
    /\ now = InitNow
    /\ advances = 0
    /\ \E pp \in prepop :
          /\ usage15 = Copies(InitNow, pp[1])
          /\ usageDaily = Copies(InitNow, pp[1]) (+) OldBursts(pp[2])
          /\ calls = Copies(InitNow, pp[1]) (+) OldBursts(pp[2])
    /\ ncalls = 0
    /\ creds \in [Users -> InitRows]
    /\ activities = {}
    /\ queue = <<>>
    /\ nextJobId = 1
    /\ claims = <<>>
    /\ pc = [a \in Actors |-> "idle"]
    /\ loc = [a \in Actors |-> Idle]
    /\ result = [a \in Actors |-> "none"]
    /\ tok = NoCall
    /\ StoreEmpty

\* time passes
Advance(d) ==
    /\ advances < MaxAdvances
    /\ now' = now + d
    /\ advances' = advances + 1
    /\ UNCHANGED <<usage15, usageDaily, calls, ncalls, creds, activities, queue,
                   nextJobId, claims, pc, loc, result, tok>>
    /\ UNCHANGED storeVars

\* the lists after a call of strava_can_make_request()
Trimmed ==
    /\ usage15' = TrimUsage15(usage15, now)
    /\ usageDaily' = TrimUsageDaily(usageDaily, now)

\* the queue after the except branch of process_sync_queue_one for actor a,
\* from queue q; a request has no job
Failed(q, a, err) ==
    IF a \in Workers
    THEN FinishFailed(q, loc[a].job, now, Truncate(err))
    ELSE q

\* the queue after sync_user_strava_activities returned to the tick
Done(q, a) ==
    IF a \in Workers
    THEN FinishDone(q, loc[a].job, now)
    ELSE q

\* what a's caller gets once the sync run is over on queue q
Outcome(q, a, raised, own) ==
    IF a \in Workers THEN TickResult(q, loc[a].job, own)
    ELSE IF raised THEN "raised" ELSE "syncing"

\* POST /strava/sync (trigger_sync) into run_sync_or_enqueue, up to its first
\* suspension: the limiter check, then either the sync starts or a job is added
RunSyncOrEnqueue(a, u) ==
    /\ a \in Requests
    /\ pc[a] = "idle"
    /\ u \in DOMAIN creds
    /\ Trimmed
    /\ IF strava_can_make_request
       THEN /\ pc' = [pc EXCEPT ![a] = "sync"]
            /\ loc' = [loc EXCEPT ![a] = [Idle EXCEPT !.user = u]]
            /\ UNCHANGED <<queue, nextJobId, claims, result>>
       ELSE /\ nextJobId <= MaxJobs
            /\ queue' = [j \in DOMAIN queue \cup {nextJobId} |->
                            IF j = nextJobId THEN NewJob(u, now) ELSE queue[j]]
            /\ claims' = [j \in DOMAIN claims \cup {nextJobId} |->
                            IF j = nextJobId THEN 0 ELSE claims[j]]
            /\ nextJobId' = nextJobId + 1
            /\ pc' = [pc EXCEPT ![a] = "ret"]
            /\ loc' = [loc EXCEPT ![a] = [Idle EXCEPT !.user = u]]
            /\ result' = [result EXCEPT ![a] = "queued"]
    /\ UNCHANGED <<now, advances, calls, ncalls, creds, activities, tok>>
    /\ UNCHANGED storeVars

\* process_sync_queue_one up to the SELECT's result
TickBegin(a) ==
    /\ a \in Workers
    /\ pc[a] = "idle"
    /\ Trimmed
    /\ IF strava_can_make_request /\ OldestPending(queue) /= {}
       THEN \E j \in OldestPending(queue) :
               /\ pc' = [pc EXCEPT ![a] = "claim"]
               /\ loc' = [loc EXCEPT ![a] =
                            [Idle EXCEPT !.job = j, !.user = queue[j].user]]
               /\ UNCHANGED result
       ELSE /\ pc' = [pc EXCEPT ![a] = "ret"]
            /\ result' = [result EXCEPT ![a] = "false"]
            /\ UNCHANGED loc
    /\ UNCHANGED <<now, advances, calls, ncalls, creds, activities, queue,
                   nextJobId, claims, tok>>
    /\ UNCHANGED storeVars

\* job.status = "running"; job.started_at = now; flush
TickClaim(a) ==
    /\ a \in Workers
    /\ pc[a] = "claim"
    /\ LET j == loc[a].job IN
       IF j \in DOMAIN queue
       THEN /\ queue' = [queue EXCEPT ![j].status = "running", ![j].started_at = now]
            /\ claims' = [claims EXCEPT ![j] = @ + 1]
            /\ pc' = [pc EXCEPT ![a] = "sync"]
            /\ UNCHANGED result
       ELSE \* the row was deleted meanwhile: the flush raises StaleDataError
            /\ pc' = [pc EXCEPT ![a] = "ret"]
            /\ result' = [result EXCEPT ![a] = "raised"]
            /\ UNCHANGED <<queue, claims>>
    /\ UNCHANGED <<now, advances, usage15, usageDaily, calls, ncalls, creds,
                   activities, nextJobId, loc, tok>>
    /\ UNCHANGED storeVars

\* sync_user_strava_activities up to the end of _ensure_access_token
SyncStart(a) ==
    /\ pc[a] = "sync"
    /\ LET u == loc[a].user IN
       IF u \notin DOMAIN creds
       THEN \* no credentials: the run returns at once
            /\ queue' = Done(queue, a)
            /\ pc' = [pc EXCEPT ![a] = "ret"]
            /\ result' = [result EXCEPT ![a] = Outcome(queue, a, FALSE, FALSE)]
            /\ UNCHANGED <<creds, activities, loc>>
       ELSE \E resp \in EngineTokenResponses(now) :
            LET r == EnsureAccessToken(creds[u], now, resp)
                n == IF r.called THEN 1 ELSE 0
            IN
            CASE r.outcome \in {"cached", "refreshed"} ->
                    /\ creds' = [creds EXCEPT ![u] = r.row]
                    /\ pc' = [pc EXCEPT ![a] = "page"]
                    /\ loc' = [loc EXCEPT ![a].page = 1, ![a].refreshes = n]
                    /\ UNCHANGED <<activities, queue, result>>
              [] r.outcome = "revoked" ->
                    \* the three deletes and the commit, then ValueError
                    /\ activities' = ActivitiesWithout(activities, u)
                    /\ creds' = CredsWithout(creds, u)
                    /\ queue' = Failed(QueueWithout(queue, u), a, RevokedError)
                    /\ pc' = [pc EXCEPT ![a] = "ret"]
                    /\ loc' = [loc EXCEPT ![a].err = RevokedError, ![a].refreshes = n]
                    /\ result' = [result EXCEPT ![a] =
                                    Outcome(QueueWithout(queue, u), a, TRUE, TRUE)]
              [] r.outcome \in {"decrypt", "http"} ->
                    \E err \in IF r.outcome = "decrypt" THEN {DecryptError}
                               ELSE HttpErrors(resp.status) :
                    /\ queue' = Failed(queue, a, err)
                    /\ pc' = [pc EXCEPT ![a] = "ret"]
                    /\ loc' = [loc EXCEPT ![a].err = err, ![a].refreshes = n]
                    /\ result' = [result EXCEPT ![a] = Outcome(queue, a, TRUE, FALSE)]
                    /\ UNCHANGED <<creds, activities>>
    /\ UNCHANGED <<now, advances, usage15, usageDaily, calls, ncalls, nextJobId,
                   claims, tok>>
    /\ UNCHANGED storeVars

\* mutant: the last page fetched is left out of the list handed to the upsert
Complete_WithoutLastPage(a, all) ==
    /\ activities' = Upsert(activities, Rows(loc[a].user, SubSeq(all, 1, Len(all) - 1)))
    /\ queue' = Done(queue, a)
    /\ pc' = [pc EXCEPT ![a] = "ret"]
    /\ result' = [result EXCEPT ![a] = Outcome(queue, a, FALSE, FALSE)]

\* the upsert of the fetched list and the return to the caller
Complete(a, all) ==
    /\ activities' = Upsert(activities, Rows(loc[a].user, all))
    /\ queue' = Done(queue, a)
    /\ pc' = [pc EXCEPT ![a] = "ret"]
    /\ result' = [result EXCEPT ![a] = Outcome(queue, a, FALSE, FALSE)]

\* one turn of the loop of get_all_activities_paginated, with the upsert that
\* follows the loop's end
PageStep(a) ==
    /\ pc[a] = "page"
    /\ IF ~strava_can_make_request
       THEN \* threshold reached during pagination: stop early
            /\ Trimmed
            /\ Complete(a, loc[a].all)
            /\ UNCHANGED <<calls, ncalls, loc>>
       ELSE \* _get_activities_page: its own check passes, the request is recorded
            /\ ncalls < MaxCalls
            /\ usage15' = RecordRequest(TrimUsage15(usage15, now), now)
            /\ usageDaily' = RecordRequest(TrimUsageDaily(usageDaily, now), now)
            /\ calls' = RecordRequest(calls, now)
            /\ ncalls' = ncalls + 1
            /\ \E resp \in PageResponses(loc[a].page) :
               LET batch == <<loc[a].page, resp.n>>
                   all == Append(loc[a].all, batch)
               IN
               CASE resp.status /= 200 ->
                       \E err \in HttpErrors(resp.status) :
                       /\ queue' = Failed(queue, a, err)
                       /\ pc' = [pc EXCEPT ![a] = "ret"]
                       /\ loc' = [loc EXCEPT ![a].err = err]
                       /\ result' = [result EXCEPT ![a] = Outcome(queue, a, TRUE, FALSE)]
                       /\ UNCHANGED activities
                 [] resp.status = 200 /\ resp.n = 0 ->
                       /\ Complete(a, loc[a].all)
                       /\ UNCHANGED loc
                 [] resp.status = 200 /\ resp.n > 0 /\ resp.n < PER_PAGE ->
                       /\ Complete(a, all)
                       /\ loc' = [loc EXCEPT ![a].all = all]
                 [] resp.status = 200 /\ resp.n >= PER_PAGE ->
                       /\ loc' = [loc EXCEPT ![a].all = all, ![a].page = @ + 1]
                       /\ UNCHANGED <<activities, queue, pc, result>>
    /\ UNCHANGED <<now, advances, creds, nextJobId, claims, tok>>
    /\ UNCHANGED storeVars

\* the caller is done with the call (the handler's commit, the scheduler's return)
Return(a) ==
    /\ pc[a] = "ret"
    /\ pc' = [pc EXCEPT ![a] = "idle"]
    /\ loc' = [loc EXCEPT ![a] = Idle]
    /\ result' = [result EXCEPT ![a] = "none"]
    /\ UNCHANGED <<now, advances, usage15, usageDaily, calls, ncalls, creds,
                   activities, queue, nextJobId, claims, tok>>
    /\ UNCHANGED storeVars

\* one queue worker and one interactive request, the clock moving by five
\* minutes, by the 15-minute window or by a day
Init == InitWith(Prepop)

Next ==
    \/ \E d \in AdvanceSteps : Advance(d)
    \/ \E u \in Users : RunSyncOrEnqueue("r1", u)
    \/ TickBegin("w1")
    \/ TickClaim("w1")
    \/ \E a \in {"w1", "r1"} : SyncStart(a)
    \/ \E a \in {"w1", "r1"} : PageStep(a)
    \/ \E a \in {"w1", "r1"} : Return(a)

Spec == Init /\ [][Next]_vars

\* two overlapping worker ticks; the limiter starts at its threshold, so that
\* requests are queued, and the requests' own sync runs are left unscheduled
InitTicks == InitWith({<<THRESHOLD_15MIN, 0>>})

NextTicks ==
    \/ \E d \in {300, WINDOW_15MIN} : Advance(d)
    \/ \E a \in Requests, u \in Users : RunSyncOrEnqueue(a, u)
    \/ \E a \in Workers : TickBegin(a)
    \/ \E a \in Workers : TickClaim(a)
    \/ \E a \in Workers : SyncStart(a)
    \/ \E a \in Workers : PageStep(a)
    \/ \E a \in Actors : Return(a)

SpecTicks == InitTicks /\ [][NextTicks]_vars

\* ---------------------------------------------------------------- token manager alone

\* every credentials row: token cached or not, expiry absent, past or ahead,
\* refresh secret decryptable or not
AllRows ==
    [access_token : Tokens \cup {NULL},
     expires_at : {NULL, InitNow, InitNow + ExpiresIn},
     encrypted_refresh_token : {encrypt_value(x) : x \in Secrets} \cup {<<"corrupt", NULL>>}]

\* every answer of the token endpoint, fields present or missing
AllTokenResponses(t) ==
    TokenResponses(t, Tokens \cup {NULL}, Secrets \cup {NULL}, {NULL, t, t + ExpiresIn})

InitToken ==
    /\ now = InitNow
    /\ advances = 0
    /\ usage15 = EmptyBag
    /\ usageDaily = EmptyBag
    /\ calls = EmptyBag
    /\ ncalls = 0
    /\ creds \in [Users -> AllRows]
    /\ activities = {}
    /\ queue = <<>>
    /\ nextJobId = 1
    /\ claims = <<>>
    /\ pc = [a \in Actors |-> "idle"]
    /\ loc = [a \in Actors |-> Idle]
    /\ result = [a \in Actors |-> "none"]
    /\ tok = NoCall
    /\ StoreEmpty

\* one call of _ensure_access_token for user u, whatever the endpoint answers
EnsureTokenCall(u) ==
    /\ u \in DOMAIN creds
    /\ \E resp \in AllTokenResponses(now) :
       LET r == EnsureAccessToken(creds[u], now, resp) IN
       /\ tok' = [outcome |-> r.outcome, called |-> r.called, at |-> now,
                  token |-> r.token, before |-> creds[u],
                  resp |-> IF r.called THEN resp ELSE NoCall.resp]
       /\ IF r.outcome = "revoked"
          THEN /\ creds' = CredsWithout(creds, u)
               /\ activities' = ActivitiesWithout(activities, u)
               /\ queue' = QueueWithout(queue, u)
          ELSE /\ creds' = [creds EXCEPT ![u] = r.row]
               /\ UNCHANGED <<activities, queue>>
    /\ UNCHANGED <<now, advances, usage15, usageDaily, calls, ncalls, nextJobId,
                   claims, pc, loc, result>>
    /\ UNCHANGED storeVars

NextToken ==
    \/ \E d \in AdvanceSteps : Advance(d)
    \/ \E u \in Users : EnsureTokenCall(u)

SpecToken == InitToken /\ [][NextToken]_vars

\* ---------------------------------------------------------------- find_match alone

\* the sync engine at rest (the store specifications leave it alone)
EngineOff ==
    /\ now = InitNow
    /\ advances = 0
    /\ usage15 = EmptyBag
    /\ usageDaily = EmptyBag
    /\ calls = EmptyBag
    /\ ncalls = 0
    /\ creds = <<>>
    /\ activities = {}
    /\ queue = <<>>
    /\ nextJobId = 1
    /\ claims = <<>>
    /\ pc = [a \in Actors |-> "idle"]
    /\ loc = [a \in Actors |-> Idle]
    /\ result = [a \in Actors |-> "none"]
    /\ tok = NoCall

\* midnight (UTC) of the day the store runs are set on
Day0 == 100 * DAY_SEC

\* start times: 08:00, 08:02 and 09:00 of that day, two minutes before and after
\* its midnight, and the same two instants written with a +02:00 offset
ProbeStarts ==
    {[t |-> Day0 + 8 * 3600 + d, off |-> 0] : d \in {0, 120, 3600}}
    \cup {[t |-> Day0 + d, off |-> o] : d \in {0 - 120, 120}, o \in {0, 7200}}

\* the candidates of find_match: a start and the three comparable fields, each
\* absent, equal, inside or outside its tolerance
ProbeCandidates ==
    [start_date : ProbeStarts,
     duration_sec : {NULL, 0, 3600, 3660, 4000},
     tss : {NULL, 65, 68, 80},
     distance_m : {NULL, 10000, 12000},
     name : {NoText}, type : {NoText}, notes : {NoText}]

\* the store of user 1 after create_workout(a) on an empty table
StoreOf(a) == (CHOOSE o \in create_workout(<<>>, 1, 1, a) : TRUE).workouts

\* does find_match of candidate b against the store holding only a return a row
Finds(a, b) ==
    find_matching_workout(StoreOf(a), 1, b.start_date, b.duration_sec, b.tss,
                          b.distance_m) /= {}

\* find_match applied both ways round to a pair of candidates
ProbeMatch ==
    /\ obs.kind = "none"
    /\ \E a \in ProbeCandidates, b \in ProbeCandidates :
          obs' = [kind |-> "match", a |-> a, b |-> b,
                  ab |-> Finds(a, b), ba |-> Finds(b, a)]
    /\ UNCHANGED <<workouts, nextWorkoutId, up, ingested>>
    /\ UNCHANGED engineVars

InitMatch == EngineOff /\ StoreEmpty

SpecMatch == InitMatch /\ [][ProbeMatch]_vars

\* ---------------------------------------------------------------- the workout store

\* operations the store completes during a run
MaxIngest == 3

At(h, m, off) == [t |-> Day0 + h * 3600 + m * 60, off |-> off]

\* POST /workouts bodies: two entries of the 08:00 session, one of them typed
\* in two minutes late, and an afternoon session
StoreBodies ==
    {[start_date |-> At(8, 0, 0), name |-> "Morning run", type |-> NoText,
      duration_sec |-> 3600, distance_m |-> NULL, tss |-> NULL, notes |-> "easy"],
     [start_date |-> At(8, 2, 0), name |-> NoText, type |-> "Run",
      duration_sec |-> NULL, distance_m |-> 10000, tss |-> 65, notes |-> NoText],
     [start_date |-> At(17, 0, 0), name |-> "Evening ride", type |-> "Ride",
      duration_sec |-> 5400, distance_m |-> NULL, tss |-> NULL, notes |-> NoText]}

\* parsed FIT files: the 08:00 session (no power data), and another file
StoreFiles ==
    {[checksum |-> "sha-a", start_date |-> At(8, 0, 0), duration_sec |-> 3600,
      distance_m |-> 10000, sport |-> "running",
      raw |-> JDict([avg_hr |-> JNum(150)]), series |-> JList(<<1, 2>>)],
     [checksum |-> "sha-b", start_date |-> At(12, 0, 0), duration_sec |-> 1800,
      distance_m |-> NULL, sport |-> NoText, raw |-> JNull, series |-> JNull]}

\* activities a platform sync delivers, normalized: the 08:00 session as the
\* platform recorded it, and a second activity
StoreActivities ==
    {[id |-> "i1", start_date |-> At(8, 2, 0).t, name |-> "Morning Run",
      type |-> "Run", duration_sec |-> 3660, distance_m |-> NULL, tss |-> 65,
      raw |-> JDict([icu_training_load |-> JNum(65)])],
     [id |-> "i2", start_date |-> At(12, 30, 0).t, name |-> NoText,
      type |-> NoText, duration_sec |-> NULL, distance_m |-> 5000, tss |-> NULL,
      raw |-> JDict(<<>>)]}

\* the lists one sync run may fetch
StoreFetches == {<<a>> : a \in StoreActivities} \cup {<<a, a>> : a \in StoreActivities}

\* an entry of the history of completed operations
Entry(op, key, start, id, merged) ==
    [op |-> op, key |-> key, start |-> start, id |-> id, merged |-> merged]

\* create_workout (the handler runs on its own session to its commit)
CreateWorkout(body) ==
    /\ Len(ingested) < MaxIngest
    /\ \E o \in create_workout(workouts, nextWorkoutId, 1, body) :
          /\ workouts' = o.workouts
          /\ nextWorkoutId' = o.next
          /\ ingested' = Append(ingested,
                Entry("create", <<body.name>>, body.start_date, o.id, o.merged))
    /\ UNCHANGED <<up, obs>>
    /\ UNCHANGED engineVars

\* upload_fit up to the result of the checksum query: 409 or go on
UploadBegin(a, file) ==
    /\ up[a].pc = "idle"
    /\ Len(ingested) < MaxIngest
    /\ IF ChecksumTaken(workouts, 1, file.checksum)
       THEN UNCHANGED up
       ELSE up' = [up EXCEPT ![a] = [NoUpload EXCEPT !.pc = "match", !.file = file]]
    /\ UNCHANGED <<workouts, nextWorkoutId, ingested, obs>>
    /\ UNCHANGED engineVars

\* upload_fit: the query of _find_matching_workout
UploadMatch(a) ==
    /\ up[a].pc = "match"
    /\ LET ms == FitMatches(workouts, 1, up[a].file) IN
       IF ms = {}
       THEN up' = [up EXCEPT ![a].pc = "write"]
       ELSE \E m \in ms :
               up' = [up EXCEPT ![a].pc = "write", ![a].match = m,
                                ![a].loaded = workouts[m]]
    /\ UNCHANGED <<workouts, nextWorkoutId, ingested, obs>>
    /\ UNCHANGED engineVars

\* upload_fit: merge into the match or insert, and commit
UploadWrite(a) ==
    /\ up[a].pc = "write"
    /\ LET file == up[a].file
           m == up[a].match
       IN
       IF m = NULL
       THEN /\ workouts' = Insert(workouts, nextWorkoutId, FitRow(1, file))
            /\ nextWorkoutId' = nextWorkoutId + 1
            /\ ingested' = Append(ingested,
                  Entry("fit", <<file.checksum>>, file.start_date, nextWorkoutId, FALSE))
       ELSE IF m \in DOMAIN workouts
       THEN /\ workouts' = [workouts EXCEPT ![m] =
                  FlushRow(@, up[a].loaded,
                           merge_workout_fields(up[a].loaded, FitFields(file)))]
            /\ ingested' = Append(ingested,
                  Entry("fit", <<file.checksum>>, file.start_date, m, TRUE))
            /\ UNCHANGED nextWorkoutId
       ELSE \* the matched row was deleted meanwhile: StaleDataError, rollback
            UNCHANGED <<workouts, nextWorkoutId, ingested>>
    /\ up' = [up EXCEPT ![a] = NoUpload]
    /\ UNCHANGED obs
    /\ UNCHANGED engineVars

\* sync_intervals_to_db on a fetched list of activities
SyncIntervals(acts) ==
    /\ Len(ingested) < MaxIngest
    /\ LET o == sync_intervals_to_db(workouts, nextWorkoutId, 1, acts) IN
          /\ workouts' = o.workouts
          /\ nextWorkoutId' = o.next
          /\ ingested' = Append(ingested,
                Entry("sync", <<acts[1].id>>, [t |-> acts[1].start_date, off |-> 0],
                      o.id, o.merged))
    /\ UNCHANGED <<up, obs>>
    /\ UNCHANGED engineVars

\* DELETE /workouts/{id}
DeleteWorkout(id) ==
    /\ id \in DOMAIN workouts
    /\ Len(ingested) < MaxIngest
    /\ workouts' = delete_workout(workouts, id)
    /\ ingested' = Append(ingested,
          Entry("delete", <<workouts[id].name>>, [t |-> workouts[id].start_date, off |-> 0],
                id, FALSE))
    /\ UNCHANGED <<nextWorkoutId, up, obs>>
    /\ UNCHANGED engineVars

InitStore == EngineOff /\ StoreEmpty

NextStore ==
    \/ \E body \in StoreBodies : CreateWorkout(body)
    \/ \E a \in Uploaders, file \in StoreFiles : UploadBegin(a, file)
    \/ \E a \in Uploaders : UploadMatch(a)
    \/ \E a \in Uploaders : UploadWrite(a)
    \/ \E acts \in StoreFetches : SyncIntervals(acts)
    \/ \E id \in DOMAIN workouts : DeleteWorkout(id)

SpecStore == InitStore /\ [][NextStore]_vars

\* ---------------------------------------------------------------- order of arrival

\* observations of the 08:00 session, as each source may deliver it
SessionBodies ==
    [start_date : {At(8, 0, 0), At(8, 2, 0)}, name : {NoText, "Morning run"},
     type : {NoText}, duration_sec : {NULL, 3600}, distance_m : {NULL, 10000},
     tss : {NULL, 65}, notes : {NoText, "easy"}]

SessionFiles ==
    [checksum : {"sha-a"}, start_date : {At(8, 0, 0), At(7, 58, 0)},
     duration_sec : {3600, 3660}, distance_m : {NULL, 10000},
     sport : {"running", NoText},
     raw : {JNull, JDict([avg_hr |-> JNum(150)])},
     series : {JNull, JList(<<1, 2>>)}]

SessionActivities ==
    [id : {"i1"}, start_date : {At(8, 0, 0).t, At(8, 2, 0).t},
     name : {"Morning Run"}, type : {"Run"}, duration_sec : {NULL, 3660},
     distance_m : {NULL, 10000}, tss : {NULL, 65},
     raw : {JDict(<<>>), JDict([icu_training_load |-> JNum(65)])}]

\* the stores a handler may leave, run on each of the stores S
AfterCreate(S, body) == UNION {create_workout(o.workouts, o.next, 1, body) : o \in S}
AfterUpload(S, file) == UNION {upload_fit(o.workouts, o.next, 1, file) : o \in S}
AfterSync(S, acts) == {sync_intervals_to_db(o.workouts, o.next, 1, acts) : o \in S}

EmptyStore == {Outcome4(<<>>, 1, NULL, FALSE)}

\* what is left in the tables S, whatever the ids: the rows and their number
Final(S) == {[n |-> Cardinality(DOMAIN o.workouts),
              rows |-> {o.workouts[i] : i \in DOMAIN o.workouts}] : o \in S}

Ordered(ab, ba) == [kind |-> "order", ab |-> Final(ab), ba |-> Final(ba)]

\* two observations of different sources ingested in both orders
ProbeOrder ==
    /\ obs.kind = "none"
    /\ \/ \E body \in SessionBodies, file \in SessionFiles :
             obs' = Ordered(AfterUpload(AfterCreate(EmptyStore, body), file),
                            AfterCreate(AfterUpload(EmptyStore, file), body))
       \/ \E body \in SessionBodies, a \in SessionActivities :
             obs' = Ordered(AfterSync(AfterCreate(EmptyStore, body), <<a>>),
                            AfterCreate(AfterSync(EmptyStore, <<a>>), body))
       \/ \E file \in SessionFiles, a \in SessionActivities :
             obs' = Ordered(AfterSync(AfterUpload(EmptyStore, file), <<a>>),
                            AfterUpload(AfterSync(EmptyStore, <<a>>), file))
    /\ UNCHANGED <<workouts, nextWorkoutId, up, ingested>>
    /\ UNCHANGED engineVars

SpecOrder == InitStore /\ [][ProbeOrder]_vars

\* ---------------------------------------------------------------- merging

\* JSON bags a raw column or an incoming payload may hold
MergeRaws ==
    {JNull, JDict(<<>>),
     JDict([series |-> JList(<<1, 2>>)]),
     JDict([series |-> JList(<<3>>), avg_hr |-> JNum(150)]),
     JDict([series |-> JList(<<>>)]),
     JDict([series |-> JNull, avg_hr |-> JNum(148)]),
     JDict([avg_hr |-> JNull, icu_training_load |-> JNum(65)]),
     JDict([photo |-> JDict([name |-> JStr("Run"), tss |-> JNull])]),
     JDict([photo |-> JDict([tss |-> JNum(65), notes |-> JStr("easy")])]),
     JDict([photo |-> JNum(1)])}

\* rows a match may return
MergeRows ==
    [user : {1}, start_date : {At(8, 0, 0).t}, name : {NoText, "Run"},
     type : {NoText}, duration_sec : {NULL, 3600}, distance_m : {NULL},
     tss : {NULL, 60}, source : {"manual", "intervals"}, external_id : {NoText},
     fit_checksum : {NoText}, notes : {NoText}, raw : MergeRaws]

\* keyword arguments a caller may pass to _merge_workout_fields
MergeFields ==
    [name : {NoText, "Running"}, type : {NoText}, duration_sec : {NULL, 3660},
     distance_m : {NULL}, tss : {NULL, 65}, notes : {NoText}, raw : MergeRaws,
     fit_checksum : {NoText, "sha-a"}, source : {NoText, "fit"}]

\* _merge_workout_fields applied to a row once, and once more with the same
\* arguments
ProbeMerge ==
    /\ obs.kind = "none"
    /\ \E a \in MergeRows, b \in MergeFields :
          obs' = [kind |-> "merge", a |-> a, b |-> b,
                  once |-> merge_workout_fields(a, b),
                  twice |-> merge_workout_fields(merge_workout_fields(a, b), b)]
    /\ UNCHANGED <<workouts, nextWorkoutId, up, ingested>>
    /\ UNCHANGED engineVars

SpecMerge == InitStore /\ [][ProbeMerge]_vars

\* ---------------------------------------------------------------- one session, one request at a time

\* starts of entries of an evening session: 22:01 UTC and the minutes around
\* it, one of them sent by a client two hours east of UTC
EveningStarts ==
    {At(22, 1, 0), At(22, 3, 0), At(22, 6, 0), At(22, 10, 0),
     [t |-> At(21, 58, 0).t, off |-> 7200]}

EveningBodies ==
    [start_date : EveningStarts, name : {NoText}, type : {NoText},
     duration_sec : {NULL, 3600}, distance_m : {NULL}, tss : {NULL, 90},
     notes : {NoText}]

\* FIT files carry UTC timestamps
EveningFiles ==
    [checksum : {"sha-a", "sha-b"},
     start_date : {At(22, 1, 0), At(22, 3, 0), At(22, 6, 0)},
     duration_sec : {3600}, distance_m : {NULL}, sport : {"cycling"},
     raw : {JNull}, series : {JNull}]

\* upload_fit run from its first line to its commit; a refused upload (409)
\* leaves everything as it was
UploadFit(file) ==
    /\ Len(ingested) < MaxIngest
    /\ \E o \in upload_fit(workouts, nextWorkoutId, 1, file) :
          /\ o.id /= NULL
          /\ workouts' = o.workouts
          /\ nextWorkoutId' = o.next
          /\ ingested' = Append(ingested,
                Entry("fit", <<file.checksum>>, file.start_date, o.id, o.merged))
    /\ UNCHANGED <<up, obs>>
    /\ UNCHANGED engineVars

NextSession ==
    \/ \E body \in EveningBodies : CreateWorkout(body)
    \/ \E file \in EveningFiles : UploadFit(file)

SpecSession == InitStore /\ [][NextSession]_vars

\* ---------------------------------------------------------------- syncs and the stored rows

\* the Strava engine (one worker, one interactive request, the clock moving
\* by the 15-minute window) beside the platform sync and the user's delete,
\* on one database
InitSync == InitWith({<<THRESHOLD_15MIN - 1, 0>>})

\* the list the platform sync fetches: the 08:00 session
SyncFetches == {<<a>> : a \in {x \in StoreActivities : x.id = "i1"}}

NextSync ==
    \/ Advance(WINDOW_15MIN)
    \/ \E u \in Users : RunSyncOrEnqueue("r1", u)
    \/ TickBegin("w1")
    \/ TickClaim("w1")
    \/ \E a \in {"w1", "r1"} : SyncStart(a)
    \/ \E a \in {"w1", "r1"} : PageStep(a)
    \/ \E a \in {"w1", "r1"} : Return(a)
    \/ \E acts \in SyncFetches : SyncIntervals(acts)
    \/ \E id \in DOMAIN workouts : DeleteWorkout(id)

SpecSync == InitSync /\ [][NextSync]_vars

\* ---------------------------------------------------------------- fitness

CTL_TAU == 42
ATL_TAU == 7

RECURSIVE Pow(_, _)
Pow(b, k) == IF k = 0 THEN 1 ELSE b * Pow(b, k - 1)

RECURSIVE SumOf(_, _)
\* the sum of f over the finite set S
SumOf(f, S) ==
    IF S = {} THEN 0
    ELSE LET x == CHOOSE y \in S : TRUE IN f[x] + SumOf(f, S \ {x})

\* start_date.date() of a stored (UTC) instant, as a day number
DateOf(t) == t \div DAY_SEC

\* round(n / d, 1) in tenths, d > 0: the nearest tenth, an exact tie going to
\* the even one
RoundTenths(n, d) ==
    LET m == Abs(n)
        q == (20 * m + d) \div (2 * d)
        r == IF (20 * m + d) % (2 * d) = 0 /\ q % 2 = 1 THEN q - 1 ELSE q
    IN IF n < 0 THEN 0 - r ELSE r

\* the loop of compute_fitness_from_workouts from day d to to_date: ctl is
\* c / CTL_TAU^k and atl is a / ATL_TAU^k after k days, kept as exact fractions
RECURSIVE EmaLoop(_, _, _, _, _, _)
\* mutant: a day without a workout is skipped, the averages do not decay
EmaLoop_SkipRest(tss_by_date, d, to_date, c, a, k) ==
    IF d > to_date THEN [c |-> c, a |-> a, k |-> k]
    ELSE IF d \notin DOMAIN tss_by_date
    THEN EmaLoop(tss_by_date, d + 1, to_date, c, a, k)
    ELSE EmaLoop(tss_by_date, d + 1, to_date,
                 (CTL_TAU - 1) * c + tss_by_date[d] * Pow(CTL_TAU, k),
                 (ATL_TAU - 1) * a + tss_by_date[d] * Pow(ATL_TAU, k),
                 k + 1)

EmaLoop(tss_by_date, d, to_date, c, a, k) ==
    IF d > to_date THEN [c |-> c, a |-> a, k |-> k]
    ELSE LET tss == IF d \in DOMAIN tss_by_date THEN tss_by_date[d] ELSE 0 IN
         EmaLoop(tss_by_date, d + 1, to_date,
                 (CTL_TAU - 1) * c + tss * Pow(CTL_TAU, k),
                 (ATL_TAU - 1) * a + tss * Pow(ATL_TAU, k),
                 k + 1)

\* the return value None
NoFitness == [ctl |-> NULL, atl |-> NULL, tsb |-> NULL, date |-> NULL]

\* compute_fitness_from_workouts(session, user_id, from_days=, as_of=): as_of a
\* day number, the result in tenths
compute_fitness_from_workouts(ws, uid, from_days, as_of) ==
    LET rows == {i \in DOMAIN ws :
                    /\ ws[i].user = uid
                    /\ ws[i].start_date >= (as_of - from_days) * DAY_SEC
                    /\ ws[i].start_date < (as_of + 1) * DAY_SEC}
        days == {DateOf(ws[i].start_date) : i \in rows}
        tssOf == [i \in rows |-> IF ws[i].tss /= NULL THEN ws[i].tss ELSE 0]
        tss_by_date ==
            [d \in days |-> SumOf(tssOf, {i \in rows : DateOf(ws[i].start_date) = d})]
    IN IF days = {} THEN NoFitness
       ELSE LET first_date == CHOOSE d \in days : \A e \in days : d <= e
                e == EmaLoop(tss_by_date, first_date, as_of, 0, 0, 0)
                den == Pow(CTL_TAU, e.k)
                atl42 == e.a * Pow(CTL_TAU \div ATL_TAU, e.k)
            IN [ctl |-> RoundTenths(e.c, den),
                atl |-> RoundTenths(e.a, Pow(ATL_TAU, e.k)),
                tsb |-> RoundTenths(e.c - atl42, den),
                date |-> as_of]

\* the day fitness is asked for, and the lookback windows asked with
AsOf == DateOf(Day0) + 2
FromDays == {0, 1, 2}

\* tables of up to two workouts of one user, three days back to one day ahead
\* of AsOf, with or without a training stress score
FitnessRows ==
    {ManualRow(1, [start_date |-> [t |-> (AsOf + k) * DAY_SEC + 8 * 3600, off |-> 0],
                   name |-> NoText, type |-> NoText, duration_sec |-> NULL,
                   distance_m |-> NULL, tss |-> x, notes |-> NoText]) :
        k \in {0 - 3, 0 - 2, 0 - 1, 0, 1}, x \in {NULL, 0, 42, 100}}

FitnessTables ==
    {<<>>} \cup {<<r>> : r \in FitnessRows}
           \cup {<<r, s>> : r \in FitnessRows, s \in FitnessRows}

ProbeFitness ==
    /\ obs.kind = "none"
    /\ \E ws \in FitnessTables, n \in FromDays :
          obs' = [kind |-> "fitness", ws |-> ws, from_days |-> n,
                  result |-> compute_fitness_from_workouts(ws, 1, n, AsOf)]
    /\ UNCHANGED <<workouts, nextWorkoutId, up, ingested>>
    /\ UNCHANGED engineVars

SpecFitness == InitStore /\ [][ProbeFitness]_vars

\* ---------------------------------------------------------------- GET /workouts/fitness

\* compute_fitness_from_workouts: the default of from_days
FROM_DAYS_DEFAULT == 90

\* wellness_cache of one user: date (a day number) -> row, unique per (user,
\* date); the values are in tenths, NULL when the column is null
WellnessDates == {AsOf - 1, AsOf}

\* get_fitness: the answer read from wellness_cache when Intervals is linked,
\* else the result of compute_fitness_from_workouts
get_fitness(linked, wellness, ws, uid, today) ==
    IF linked
    THEN LET ds == {d \in DOMAIN wellness : wellness[d].ctl /= NULL} IN
         IF ds = {} THEN NoFitness
         ELSE LET d == CHOOSE x \in ds : \A y \in ds : y <= x
                  row == wellness[d]
                  ctl == row.ctl
                  atl == IF row.atl /= NULL THEN row.atl ELSE 0
              IN [ctl |-> ctl, atl |-> atl,
                  tsb |-> IF row.tsb /= NULL THEN row.tsb ELSE ctl - atl,
                  date |-> d]
    ELSE compute_fitness_from_workouts(ws, uid, FROM_DAYS_DEFAULT, today)

\* rows of wellness_cache with or without the platform's load values
LoadRows ==
    [sleep_hours : {NULL}, rhr : {NULL}, hrv : {NULL}, weight_kg : {NULL},
     ctl : {NULL, 523}, atl : {NULL, 610}, tsb : {NULL, 0 - 87}]

LoadTables == UNION {[D -> LoadRows] : D \in SUBSET WellnessDates}

\* tables of at most one workout in the three days up to AsOf, or after it
RecentTables ==
    {t \in FitnessTables :
        /\ Len(t) <= 1
        /\ \A i \in DOMAIN t : DateOf(t[i].start_date) >= AsOf - 2}

ProbeGetFitness ==
    /\ obs.kind = "none"
    /\ \E linked \in BOOLEAN, wellness \in LoadTables, ws \in RecentTables :
          obs' = [kind |-> "get_fitness", linked |-> linked, wellness |-> wellness,
                  ws |-> ws,
                  computed |->
                      compute_fitness_from_workouts(ws, 1, FROM_DAYS_DEFAULT, AsOf),
                  result |-> get_fitness(linked, wellness, ws, 1, AsOf)]
    /\ UNCHANGED <<workouts, nextWorkoutId, up, ingested>>
    /\ UNCHANGED engineVars

SpecGetFitness == InitStore /\ [][ProbeGetFitness]_vars

\* ---------------------------------------------------------------- wellness

MeasuredFields == {"sleep_hours", "rhr", "hrv", "weight_kg"}
LoadFields == {"ctl", "atl", "tsb"}

\* mutant: the platform's measured values win over the stored ones
UpsertWellnessDay_PlatformWins(wellness, w) ==
    IF w.date \in DOMAIN wellness
    THEN [wellness EXCEPT ![w.date] =
            [f \in MeasuredFields \cup LoadFields |->
                IF f \in LoadFields THEN w[f] ELSE Coalesce(w[f], @[f], NULL)]]
    ELSE Insert(wellness, w.date, [f \in MeasuredFields \cup LoadFields |-> w[f]])

\* one row of the INSERT INTO wellness_cache ... ON CONFLICT (user_id, date) DO
\* UPDATE: ctl, atl, tsb from the platform, the measured fields by
\* coalesce(stored, platform)
UpsertWellnessDay(wellness, w) ==
    IF w.date \in DOMAIN wellness
    THEN [wellness EXCEPT ![w.date] =
            [f \in MeasuredFields \cup LoadFields |->
                IF f \in LoadFields THEN w[f] ELSE Coalesce(@[f], w[f], NULL)]]
    ELSE Insert(wellness, w.date, [f \in MeasuredFields \cup LoadFields |-> w[f]])

\* sync_intervals_to_db, the wellness part: days without a date are skipped,
\* the others upserted (the dates of one fetch are distinct)
RECURSIVE sync_wellness(_, _)
sync_wellness(wellness, days) ==
    IF days = <<>> THEN wellness
    ELSE IF Head(days).date = NULL THEN sync_wellness(wellness, Tail(days))
    ELSE sync_wellness(UpsertWellnessDay(wellness, Head(days)), Tail(days))

\* upsert_wellness (PUT /wellness): the body's non-null values are written on
\* the day's row, or a row is added with them
upsert_wellness(wellness, body) ==
    IF body.date \in DOMAIN wellness
    THEN [wellness EXCEPT ![body.date] =
            [f \in MeasuredFields \cup LoadFields |->
                IF f \in MeasuredFields /\ body[f] /= NULL THEN body[f] ELSE @[f]]]
    ELSE Insert(wellness, body.date,
                [f \in MeasuredFields \cup LoadFields |->
                    IF f \in MeasuredFields THEN body[f] ELSE NULL])

\* rows of wellness_cache, values in tenths
WellnessRows ==
    [sleep_hours : {NULL, 75}, rhr : {NULL, 520}, hrv : {NULL, 650},
     weight_kg : {NULL, 700}, ctl : {NULL, 523}, atl : {NULL}, tsb : {NULL}]

\* wellness_cache before the operation: nothing or one row on AsOf, with or
\* without an earlier day filled in by hand
EarlierRow ==
    [sleep_hours |-> 80, rhr |-> 500, hrv |-> NULL, weight_kg |-> NULL,
     ctl |-> NULL, atl |-> NULL, tsb |-> NULL]

WellnessTables ==
    LET today == {<<>>} \cup {Insert(<<>>, AsOf, r) : r \in WellnessRows}
    IN today \cup {Insert(t, AsOf - 1, EarlierRow) : t \in today}

\* days of the platform's wellness answer
WellnessDays ==
    [date : {NULL, AsOf - 1, AsOf}, sleep_hours : {NULL, 60}, rhr : {NULL, 480},
     hrv : {NULL, 700}, weight_kg : {NULL, 710}, ctl : {NULL, 540}, atl : {600},
     tsb : {0 - 60}]

WellnessFetches ==
    {<<w>> : w \in WellnessDays}
    \cup {<<v, w>> : v \in {x \in WellnessDays : x.date = AsOf - 1 /\ x.sleep_hours = NULL
                                               /\ x.ctl /= NULL /\ x.weight_kg = NULL},
                     w \in {x \in WellnessDays : x.date = AsOf /\ x.hrv = NULL}}

\* bodies of PUT /wellness
WellnessBodies ==
    [date : {AsOf - 1, AsOf}, sleep_hours : {NULL, 65}, rhr : {NULL, 490},
     hrv : {NULL, 710}, weight_kg : {NULL, 720}]

\* one operation on a wellness table
ProbeWellness ==
    /\ obs.kind = "none"
    /\ \E before \in WellnessTables :
          \/ \E days \in WellnessFetches :
                obs' = [kind |-> "wellness", op |-> "sync", before |-> before,
                        days |-> days, after |-> sync_wellness(before, days)]
          \/ \E body \in WellnessBodies :
                obs' = [kind |-> "wellness", op |-> "put", before |-> before,
                        days |-> <<body>>, after |-> upsert_wellness(before, body)]
    /\ UNCHANGED <<workouts, nextWorkoutId, up, ingested>>
    /\ UNCHANGED engineVars

SpecWellness == InitStore /\ [][ProbeWellness]_vars

\* ---------------------------------------------------------------- normalization

\* Text of a payload is a sequence of lexemes: a run of digits (a number), one
\* of the unit letters "h", "m", "s", the unit "km", a colon, or "x" (any other
\* word).  <<>> is the empty text.
D(n) == [k |-> "d", n |-> n]

U(k) == [k |-> k, n |-> 0]

IsDigits(l) == l.k = "d"

\* Python truthiness of a payload value, as the `or` chains see it
PyTruthy(v) ==
    CASE v.t = "null" -> FALSE
      [] v.t = "num" -> v.v /= 0
      [] v.t = "str" -> v.v /= <<>>
      [] OTHER -> TRUE

\* a or b
PyOr(a, b) == IF PyTruthy(a) THEN a ELSE b

\* position of the first number of a text (0 when there is none)
FirstNumber(s) ==
    IF \E i \in 1..Len(s) : IsDigits(s[i])
    THEN CHOOSE i \in 1..Len(s) : IsDigits(s[i]) /\ \A j \in 1..(i - 1) : ~IsDigits(s[j])
    ELSE 0

\* _parse_float: a number as it is, the first number of a text, else None
parse_float(v) ==
    CASE v.t = "num" -> v.v
      [] v.t = "str" -> IF FirstNumber(v.v) = 0 THEN NULL ELSE v.v[FirstNumber(v.v)].n
      [] OTHER -> NULL

\* s.split(":") with int() of every part: the numbers when the text is numbers
\* separated by colons, <<>> on ValueError
ColonNumbers(s) ==
    IF /\ Len(s) % 2 = 1
       /\ \A i \in 1..Len(s) : IF i % 2 = 1 THEN IsDigits(s[i]) ELSE s[i].k = ":"
    THEN [k \in 1..((Len(s) + 1) \div 2) |-> s[2 * k - 1].n]
    ELSE <<>>

\* re.search(r"(\d+)\s*u", s): the number before the first text starting with
\* the letter u (NULL when no number is followed by one)
UnitNumber(s, u) ==
    LET at == {i \in 1..(Len(s) - 1) : IsDigits(s[i]) /\ s[i + 1].k = u} IN
    IF at = {} THEN NULL ELSE s[CHOOSE i \in at : \A j \in at : i <= j].n

OrZero(x) == IF x = NULL THEN 0 ELSE x

\* _parse_duration_sec
parse_duration_sec(v) ==
    CASE v.t = "num" -> v.v
      [] v.t = "str" ->
           LET s == v.v
               nums == IF \E i \in 1..Len(s) : s[i].k = ":" THEN ColonNumbers(s) ELSE <<>>
               h == UnitNumber(s, "h")
               m == UnitNumber(s, "m")
               sec == UnitNumber(s, "s")
           IN IF s = <<>> THEN NULL
              ELSE IF Len(nums) = 3 THEN nums[1] * 3600 + nums[2] * 60 + nums[3]
              ELSE IF Len(nums) = 2 THEN nums[1] * 3600 + nums[2] * 60
              ELSE IF h /= NULL \/ m /= NULL \/ sec /= NULL
                   THEN OrZero(h) * 3600 + OrZero(m) * 60 + OrZero(sec)
              ELSE parse_float(v)
      [] OTHER -> NULL

\* _parse_distance_m
parse_distance_m(v) ==
    CASE v.t = "num" -> v.v
      [] v.t = "str" ->
           LET f == parse_float(v) IN
           IF v.v = <<>> \/ f = NULL THEN NULL
           ELSE IF \E i \in 1..Len(v.v) : v.v[i].k = "km" THEN f * 1000
           ELSE f
      [] OTHER -> NULL

\* _activity_to_workout_row: the duration and the distance of the row
activity_to_workout_row(raw) ==
    LET chain == PyOr(PyOr(raw.moving_time, raw.movingTime), raw.duration)
        duration_raw == IF chain.t = "null" THEN raw.length ELSE chain
        distance_raw == IF raw.distance.t = "null" THEN raw.length ELSE raw.distance
    IN [duration_sec |-> parse_duration_sec(duration_raw),
        distance_m |-> parse_distance_m(distance_raw)]

\* values a field of a payload may hold: absent, numbers, texts
RawTexts ==
    {<<>>, <<U("x")>>, <<D(0)>>, <<D(1), U(":"), D(0), U(":"), D(0)>>,
     <<D(90), U("m")>>, <<D(5), U("km")>>, <<U("x"), U(":"), U("x")>>}

RawValues == {JNull, JNum(0), JNum(3600)} \cup {JStr(s) : s \in RawTexts}

RawPayloads ==
    [moving_time : RawValues, movingTime : {JNull, JNum(0), JNum(1800)},
     duration : {JNull, JNum(0), JNum(3600), JStr(<<U("x")>>)},
     length : {JNull, JNum(1500)},
     distance : RawValues]

ProbeNormalize ==
    /\ obs.kind = "none"
    /\ \E raw \in RawPayloads :
          obs' = [kind |-> "normalize", raw |-> raw, row |-> activity_to_workout_row(raw)]
    /\ UNCHANGED <<workouts, nextWorkoutId, up, ingested>>
    /\ UNCHANGED engineVars

SpecNormalize == InitStore /\ [][ProbeNormalize]_vars

\* ---------------------------------------------------------------- sync batch

\* sync runs of one behaviour
MaxRuns == 2

\* for a.id in seen_ids: the first activity of every id is kept
RECURSIVE Dedup(_, _)
Dedup(acts, seen) ==
    IF acts = <<>> THEN <<>>
    ELSE LET a == Head(acts) IN
         IF a.id = NoText \/ a.id \in seen THEN Dedup(Tail(acts), seen)
         ELSE <<a>> \o Dedup(Tail(acts), seen \cup {a.id})

\* the rows sent for a detail fetch
NeedsDetail(row) ==
    \/ row.duration_sec = NULL
    \/ row.distance_m = NULL
    \/ row.tss = NULL
    \/ row.name = NoText

\* the outcome of get_activity_single applied to a row: a failed fetch leaves
\* the row alone, a detail is laid over raw and fills what it holds
DetailFill(row, d) ==
    IF ~NeedsDetail(row) \/ ~d.ok THEN row
    ELSE [row EXCEPT
            !.raw = JDict([k \in DOMAIN row.raw.v \cup DOMAIN d.raw.v |->
                             IF k \in DOMAIN d.raw.v THEN d.raw.v[k] ELSE row.raw.v[k]]),
            !.start_date = Coalesce(d.start_date, @, NULL),
            !.duration_sec = Coalesce(d.duration_sec, @, NULL)]

\* sync_intervals_to_db, the workouts part: the rows are built, filled from
\* their details and sent in one INSERT ... ON CONFLICT statement. A row
\* without start_date violates NOT NULL of workouts.start_date: the statement
\* raises and writes nothing.
sync_workouts(ws, next, uid, acts, details) ==
    LET kept == Dedup(acts, {})
        rows == [i \in DOMAIN kept |-> DetailFill(kept[i], details[kept[i].id])]
    IN IF \E i \in DOMAIN rows : rows[i].start_date = NULL
       THEN [raised |-> TRUE, workouts |-> ws, next |-> next]
       ELSE LET o == sync_intervals_to_db(ws, next, uid, rows) IN
            [raised |-> FALSE, workouts |-> o.workouts, next |-> o.next]

\* activities of a fetched list: a complete one, the same one in a sparse
\* later answer, one without a start date, one without an id, a third one
BatchActivities ==
    {[id |-> "i1", start_date |-> At(8, 2, 0).t, name |-> "Morning Run",
      type |-> "Run", duration_sec |-> 3660, distance_m |-> 10000, tss |-> 65,
      raw |-> JDict([icu_training_load |-> JNum(65)])],
     [id |-> "i1", start_date |-> At(8, 2, 0).t, name |-> NoText,
      type |-> NoText, duration_sec |-> NULL, distance_m |-> NULL, tss |-> NULL,
      raw |-> JDict(<<>>)],
     [id |-> "i2", start_date |-> NULL, name |-> "Lunch Ride",
      type |-> "Ride", duration_sec |-> NULL, distance_m |-> 20000, tss |-> 40,
      raw |-> JDict(<<>>)],
     [id |-> NoText, start_date |-> At(9, 0, 0).t, name |-> "Swim",
      type |-> "Swim", duration_sec |-> 1200, distance_m |-> 1000, tss |-> 20,
      raw |-> JDict(<<>>)],
     [id |-> "i3", start_date |-> At(12, 30, 0).t, name |-> "Evening Run",
      type |-> "Run", duration_sec |-> 1800, distance_m |-> NULL, tss |-> 30,
      raw |-> JDict(<<>>)]}

BatchFetches ==
    {<<a>> : a \in BatchActivities} \cup {<<a, b>> : a, b \in BatchActivities}

\* get_activity_single: an exception, a detail without start date and
\* duration, a detail holding both
DetailOutcomes ==
    {[ok |-> FALSE, start_date |-> NULL, duration_sec |-> NULL, raw |-> JDict(<<>>)],
     [ok |-> TRUE, start_date |-> NULL, duration_sec |-> NULL, raw |-> JDict(<<>>)],
     [ok |-> TRUE, start_date |-> At(13, 0, 0).t, duration_sec |-> 2400,
      raw |-> JDict([moving_time |-> JNum(2400)])]}

BatchIds == {"i1", "i2", "i3"}

\* one run of sync_intervals_to_db for user 1
SyncBatch(acts, details) ==
    /\ obs.kind \in {"none", "batch"}
    /\ obs.kind = "batch" => obs.n < MaxRuns
    /\ LET o == sync_workouts(workouts, nextWorkoutId, 1, acts, details) IN
          /\ workouts' = o.workouts
          /\ nextWorkoutId' = o.next
          /\ obs' = [kind |-> "batch",
                     n |-> IF obs.kind = "batch" THEN obs.n + 1 ELSE 1,
                     acts |-> acts, details |-> details, raised |-> o.raised,
                     before |-> workouts]
    /\ UNCHANGED <<up, ingested>>
    /\ UNCHANGED engineVars

NextBatch == \E acts \in BatchFetches, details \in [BatchIds -> DetailOutcomes] :
                SyncBatch(acts, details)

SpecBatch == InitStore /\ [][NextBatch]_vars

\* ---------------------------------------------------------------- strava_activities

\* the columns of strava_activities kept by the model, besides the key
\* (user_id, strava_id): one text, one integer and one float column of the
\* provider's, the payload and the bookkeeping timestamp
StravaColumns == {"start_date", "name", "moving_time_sec", "distance_m"}

\* sync_user_strava_activities: the rows built from the fetched items; items
\* without an id or a start date are skipped
RECURSIVE strava_rows(_, _, _)
strava_rows(uid, items, t) ==
    IF items = <<>> THEN <<>>
    ELSE LET item == Head(items) IN
         IF item.id = NULL \/ item.start_date = NULL
         THEN strava_rows(uid, Tail(items), t)
         ELSE <<[user_id |-> uid, strava_id |-> item.id,
                 start_date |-> item.start_date, name |-> item.name,
                 moving_time_sec |-> item.moving_time, distance_m |-> item.distance,
                 raw |-> item, synced_at |-> t]>>
              \o strava_rows(uid, Tail(items), t)

\* INSERT INTO strava_activities ... ON CONFLICT (user_id, strava_id) DO UPDATE
\* with every column set to excluded's; the table is keyed <<user_id, strava_id>>
RECURSIVE upsert_strava(_, _)
upsert_strava(table, rows) ==
    IF rows = <<>> THEN table
    ELSE upsert_strava(Insert(table, <<Head(rows).user_id, Head(rows).strava_id>>, Head(rows)),
                       Tail(rows))

\* items of the activity list: activity 5 in full and with fields null,
\* activity 6, an item without an id
StravaItems ==
    [id : {5}, start_date : {At(8, 0, 0).t}, name : {"Ride", NoText},
     moving_time : {3600, NULL}, distance : {1000, NULL}]
    \cup [id : {6}, start_date : {At(9, 0, 0).t, NULL}, name : {"Run"},
          moving_time : {1800}, distance : {NULL}]
    \cup [id : {NULL}, start_date : {At(9, 0, 0).t}, name : {"Run"},
          moving_time : {1800}, distance : {NULL}]

\* the lists a run may fetch: every id at most once
StravaFetches ==
    {<<a>> : a \in StravaItems}
    \cup {<<a, b>> : a \in {x \in StravaItems : x.id = 5},
                     b \in {x \in StravaItems : x.id /= 5}}

\* one run of sync_user_strava_activities for user 1 at time t on the fetched
\* items; obs holds the table, the one before the run and the last two fetches
StravaSync(items, t) ==
    /\ obs.kind \in {"none", "strava"}
    /\ obs.kind = "strava" => obs.n < MaxRuns /\ t >= obs.at
    /\ LET table == IF obs.kind = "strava" THEN obs.table ELSE <<>> IN
       obs' = [kind |-> "strava",
               n |-> IF obs.kind = "strava" THEN obs.n + 1 ELSE 1,
               at |-> t, items |-> items,
               prev |-> IF obs.kind = "strava" THEN obs.items ELSE <<>>,
               before |-> table,
               table |-> upsert_strava(table, strava_rows(1, items, t))]
    /\ UNCHANGED <<workouts, nextWorkoutId, up, ingested>>
    /\ UNCHANGED engineVars

NextStrava == \E items \in StravaFetches, t \in {InitNow, InitNow + 300} :
                 StravaSync(items, t)

SpecStrava == InitStore /\ [][NextStrava]_vars

\* ---------------------------------------------------------------- queue, ticks recurring

\* one worker whose ticks keep occurring: every step of a tick that can be
\* taken is taken in the end (an await completes, the next tick starts);
\* requests are queued while the limiter refuses, the clock moves by a window
NextQueue ==
    \/ Advance(WINDOW_15MIN)
    \/ \E u \in Users : RunSyncOrEnqueue("r1", u)
    \/ TickBegin("w1")
    \/ TickClaim("w1")
    \/ SyncStart("w1")
    \/ PageStep("w1")
    \/ \E a \in {"w1", "r1"} : Return(a)

TickStep(a) == TickBegin(a) \/ TickClaim(a) \/ SyncStart(a) \/ PageStep(a) \/ Return(a)

SpecQueue == InitTicks /\ [][NextQueue]_vars /\ WF_vars(TickStep("w1"))

\* ---------------------------------------------------------------- find_match over two users

\* entries two users make before the candidate arrives
FindBodies ==
    [start_date : {At(8, 0, 0), At(9, 0, 0), [t |-> Day0 - 120, off |-> 0]},
     duration_sec : {NULL, 3600},
     tss : {NULL, 65},
     distance_m : {NULL},
     name : {NoText}, type : {NoText}, notes : {NoText}]

\* the candidates: a start near or far from the stored ones, at midnight in
\* two offsets, and fields inside, outside or without a stored counterpart
FindCandidates ==
    [start_date : {At(8, 2, 0), At(12, 0, 0), [t |-> Day0 + 120, off |-> 0],
                   [t |-> Day0 + 120, off |-> 7200]},
     duration_sec : {NULL, 3660, 4000},
     tss : {NULL, 65},
     distance_m : {NULL, 10000},
     name : {NoText}, type : {NoText}, notes : {NoText}]

\* the store after create_workout(a1) by user u1 and create_workout(a2) by u2
StoreOfTwo(u1, a1, u2, a2) ==
    LET o1 == CHOOSE o \in create_workout(<<>>, 1, u1, a1) : TRUE
    IN (CHOOSE o \in create_workout(o1.workouts, o1.next, u2, a2) : TRUE)

\* _find_matching_workout and create_workout of user 1 on a store of two users
ProbeFind ==
    /\ obs.kind = "none"
    /\ \E u1 \in {1, 2}, u2 \in {1, 2}, a1 \in FindBodies, a2 \in FindBodies,
          b \in FindCandidates :
          LET st == StoreOfTwo(u1, a1, u2, a2) IN
          obs' = [kind |-> "find", ws |-> st.workouts, b |-> b,
                  found |-> find_matching_workout(st.workouts, 1, b.start_date,
                                                  b.duration_sec, b.tss, b.distance_m),
                  created |-> create_workout(st.workouts, st.next, 1, b)]
    /\ UNCHANGED <<workouts, nextWorkoutId, up, ingested>>
    /\ UNCHANGED engineVars

SpecFind == InitMatch /\ [][ProbeFind]_vars

\* ================================================================ properties

\* recorded requests with a timestamp in (lo, hi]
CallsIn(lo, hi) ==
    BagCardinality([t \in {x \in DOMAIN calls : x > lo /\ x <= hi} |-> calls[t]])

Recent15 == CallsIn(now - WINDOW_15MIN, now)
RecentDay == CallsIn(now - WINDOW_DAILY, now)

\* user u has no synced activity, no queue job and no credentials row in the
\* given tables
TornDown(u, acts, q, c) ==
    /\ \A r \in acts : r[1] /= u
    /\ \A j \in DOMAIN q : q[j].user /= u
    /\ u \notin DOMAIN c

\* C1 (SpecTicks): with overlapping worker ticks no job is processed twice:
\* for every job at most one tick ever flips it to running and runs its sync.
C1_NoJobProcessedTwice == \A j \in DOMAIN claims : claims[j] <= 1

\* C2 (Spec): when the limiter says no at entry, run_sync_or_enqueue inserts
\* exactly one new pending job for the user, returns "queued" and makes no
\* provider call (no token refresh, no activity-list request).
C2_QueuedWhenLimited ==
    [][\A a \in Requests :
        (pc[a] = "idle" /\ pc'[a] /= "idle" /\ ~strava_can_make_request) =>
            /\ pc'[a] = "ret"
            /\ result'[a] = "queued"
            /\ \E j \in DOMAIN queue' \ DOMAIN queue :
                  /\ DOMAIN queue' = DOMAIN queue \cup {j}
                  /\ queue'[j].status = "pending"
                  /\ queue'[j].user = loc'[a].user
            /\ \A j \in DOMAIN queue : queue'[j] = queue[j]
            /\ calls' = calls
            /\ loc'[a].refreshes = 0
            /\ creds' = creds
      ]_vars

C2_Witness ==
    \E a \in Requests :
        /\ pc[a] = "ret"
        /\ result[a] = "queued"
        /\ \E j \in DOMAIN queue :
              queue[j].status = "pending" /\ queue[j].user = loc[a].user

\* C3 (Spec): whatever the interleaving of interactive syncs, ticks and
\* paginations, no 15-minute window ever holds more than THRESHOLD_15MIN
\* recorded activity-list requests and no 24-hour window more than
\* THRESHOLD_DAILY (both below the provider's ceilings), and every request is
\* made in the very step in which the limiter's check passed and the request
\* was recorded.
C3_WindowsWithinBudget ==
    /\ THRESHOLD_15MIN < LIMIT_15MIN
    /\ THRESHOLD_DAILY < LIMIT_DAILY
    /\ \A e \in DOMAIN calls :
          /\ CallsIn(e - WINDOW_15MIN, e) <= THRESHOLD_15MIN
          /\ CallsIn(e - WINDOW_DAILY, e) <= THRESHOLD_DAILY

C3_CheckedAndRecorded ==
    calls' /= calls =>
        /\ strava_can_make_request
        /\ calls' = calls (+) SetToBag({now})
        /\ BagCardinality(usage15') = BagCardinality(TrimUsage15(usage15, now)) + 1
        /\ BagCardinality(usageDaily') = BagCardinality(TrimUsageDaily(usageDaily, now)) + 1
        /\ CopiesIn(now, usage15') = CopiesIn(now, usage15) + 1
        /\ CopiesIn(now, usageDaily') = CopiesIn(now, usageDaily) + 1

C3_RateBudget == []C3_WindowsWithinBudget /\ [][C3_CheckedAndRecorded]_vars

C3_Witness ==
    /\ \E e \in DOMAIN calls : CallsIn(e - WINDOW_15MIN, e) = THRESHOLD_15MIN
    /\ ncalls >= 2
    /\ pc["w1"] = "page"
    /\ pc["r1"] = "page"

\* a 15-minute window that ended at a recorded request was full
WasFull == \E e \in DOMAIN calls : CallsIn(e - WINDOW_15MIN, e) = THRESHOLD_15MIN
\* every recorded timestamp is older than 15 minutes
AllAged == \A t \in DOMAIN calls : t < now - WINDOW_15MIN

\* C4 as stated: with exactly THRESHOLD_15MIN requests in the 15-minute window
\* the limiter says no, with one fewer it says yes, and once all timestamps
\* are older than 15 minutes it says yes again without any further record.
C4_AsStated ==
    /\ Recent15 = THRESHOLD_15MIN => ~strava_can_make_request
    /\ Recent15 = THRESHOLD_15MIN - 1 => strava_can_make_request
    /\ (WasFull /\ AllAged) => strava_can_make_request

\* C4 (Spec), amended: the same, the two "yes" answers holding provided the
\* 24-hour window holds fewer than THRESHOLD_DAILY requests.
C4_FifteenMinuteThreshold ==
    /\ Recent15 = THRESHOLD_15MIN => ~strava_can_make_request
    /\ (Recent15 = THRESHOLD_15MIN - 1 /\ RecentDay < THRESHOLD_DAILY)
          => strava_can_make_request
    /\ (WasFull /\ AllAged /\ RecentDay < THRESHOLD_DAILY) => strava_can_make_request

C4_Witness ==
    /\ WasFull
    /\ AllAged
    /\ RecentDay < THRESHOLD_DAILY
    /\ BagCardinality(usage15) >= THRESHOLD_15MIN
    /\ strava_can_make_request

\* the step in which actor a's sync run ends by raising
Raises(a) == loc[a].err = NoError /\ loc'[a].err /= NoError

\* C5 (Spec): when the token refresh of user U is rejected as revoked, then
\* once _ensure_access_token has raised U has no synced activity row, no queue
\* job (in particular no pending one) and no credentials row.
C5_RevocationTearsDown ==
    [][\A a \in Actors :
        (Raises(a) /\ loc'[a].err = RevokedError) =>
            TornDown(loc[a].user, activities', queue', creds')
      ]_vars

C5_Witness ==
    \E a \in Workers :
        /\ pc[a] = "ret"
        /\ loc[a].err = RevokedError
        /\ loc[a].refreshes = 1
        /\ claims[loc[a].job] = 1
        /\ TornDown(loc[a].user, activities, queue, creds)

\* C6 (Spec): a 401 answer to any provider call of a sync run, the token
\* refresh or an activity-list page fetched with a still cached token, is not
\* retried and at once triggers the revocation teardown of that user.
C6_Any401TearsDown ==
    [][\A a \in Actors :
        (Raises(a) /\ loc'[a].err.kind \in {"revoked", "http401"}) =>
            TornDown(loc[a].user, activities', queue', creds')
      ]_vars

\* the cached token is absent, or its stored expiry is not in the future
TokStale ==
    \/ tok.before.access_token = NULL
    \/ tok.before.expires_at = NULL
    \/ tok.before.expires_at <= tok.at

TokReturned == tok.outcome \in {"cached", "refreshed"}

\* C7 as stated: the refresh endpoint is called if and only if the cached token
\* is absent or its stored expiry is not in the future; on a normal return the
\* returned token is the stored one and is not expired by the stored expiry,
\* the stored expiry is the response's, and the refresh secret is replaced
\* exactly when the response carried a new one.
C7_AsStated ==
    tok.outcome /= "none" =>
        /\ tok.called <=> TokStale
        /\ TokReturned =>
              /\ tok.token = creds[1].access_token
              /\ creds[1].expires_at /= NULL /\ creds[1].expires_at > tok.at
              /\ tok.called => creds[1].expires_at = tok.resp.expires_at
              /\ creds[1].encrypted_refresh_token =
                    IF tok.called /\ tok.resp.refresh_token /= NULL
                    THEN encrypt_value(tok.resp.refresh_token)
                    ELSE tok.before.encrypted_refresh_token

\* C7 (SpecToken), amended: the endpoint is called if and only if the cached
\* token is absent or stale and the stored refresh secret decrypts. On a normal
\* return the returned token is the stored one; without a call it is unexpired
\* and the row is untouched; after a call whose response carried an access
\* token that token is stored, the expiry is replaced exactly when the response
\* carried one and the secret exactly when the response carried a new one; a
\* response without an access token changes nothing.
C7_TokenRefresh ==
    tok.outcome /= "none" =>
        /\ tok.called <=>
              (TokStale /\ tok.before.encrypted_refresh_token[1] = "fernet")
        /\ TokReturned =>
              /\ tok.token = creds[1].access_token
              /\ ~tok.called =>
                    /\ creds[1] = tok.before
                    /\ creds[1].expires_at > tok.at
              /\ (tok.called /\ tok.resp.access_token /= NULL) =>
                    /\ creds[1].access_token = tok.resp.access_token
                    /\ creds[1].expires_at =
                          IF tok.resp.expires_at /= NULL THEN tok.resp.expires_at
                          ELSE tok.before.expires_at
                    /\ creds[1].encrypted_refresh_token =
                          IF tok.resp.refresh_token /= NULL
                          THEN encrypt_value(tok.resp.refresh_token)
                          ELSE tok.before.encrypted_refresh_token
              /\ (tok.called /\ tok.resp.access_token = NULL) =>
                    creds[1] = tok.before

C7_Witness ==
    /\ tok.outcome = "refreshed"
    /\ tok.before.access_token /= NULL
    /\ tok.before.expires_at /= NULL
    /\ tok.resp.access_token /= NULL
    /\ tok.resp.access_token /= tok.before.access_token
    /\ tok.resp.refresh_token /= NULL
    /\ encrypt_value(tok.resp.refresh_token) /= tok.before.encrypted_refresh_token
    /\ tok.resp.expires_at /= NULL
    /\ tok.resp.expires_at > tok.at
    /\ tok.token = tok.resp.access_token

\* C8 (SpecTicks): a job's status only moves pending -> running -> done or
\* pending -> running -> failed; a done or failed job never changes status
\* again and no later tick takes it.
C8_StatusTransitions ==
    [][\A j \in DOMAIN queue \cap DOMAIN queue' :
        \/ queue'[j].status = queue[j].status
        \/ <<queue[j].status, queue'[j].status>> \in
              {<<"pending", "running">>, <<"running", "done">>,
               <<"running", "failed">>}
      ]_vars

\* the pending jobs of queue q that no pending job precedes
EarliestPending(q) ==
    {j \in DOMAIN q :
        /\ q[j].status = "pending"
        /\ ~\E k \in DOMAIN q :
              q[k].status = "pending" /\ q[k].requested_at < q[j].requested_at}

\* C9 (Spec): one worker tick handles at most one job: it takes a job only if
\* the limiter says yes when the tick starts, the job it takes is a pending job
\* with the earliest requested_at, it flips that job alone to running, and when
\* the limiter says no or nothing is pending it returns False, changes no job
\* and makes no provider call.
C9_OneOldestJobPerTick ==
    [][\A w \in Workers :
        /\ (pc[w] = "idle" /\ pc'[w] /= "idle") =>
              IF strava_can_make_request
                 /\ \E j \in DOMAIN queue : queue[j].status = "pending"
              THEN /\ pc'[w] = "claim"
                   /\ loc'[w].job \in EarliestPending(queue)
                   /\ queue' = queue
              ELSE /\ pc'[w] = "ret"
                   /\ result'[w] = "false"
                   /\ queue' = queue
                   /\ calls' = calls
                   /\ loc'[w].refreshes = 0
                   /\ creds' = creds /\ activities' = activities
        /\ (pc[w] = "claim" /\ pc'[w] = "sync") =>
              /\ queue'[loc[w].job].status = "running"
              /\ \A k \in DOMAIN queue \ {loc[w].job} : queue'[k] = queue[k]
        /\ (pc[w] \notin {"idle", "claim"}) =>
              \A k \in DOMAIN queue \cap DOMAIN queue' :
                  (k /= loc[w].job /\ pc'[w] /= pc[w]) => queue'[k] = queue[k]
      ]_vars

C9_Witness ==
    /\ pc["w1"] = "claim"
    /\ \E k \in DOMAIN queue :
          /\ queue[k].status = "pending"
          /\ queue[k].requested_at > queue[loc["w1"].job].requested_at
    /\ queue[loc["w1"].job].status = "pending"

\* C10 (Spec): if the sync run inside a tick raises (a provider error, a
\* decryption failure, the revocation whose teardown deletes the user's queue
\* jobs), the tick does not raise: the job it took ends failed, with
\* finished_at set and error_message the exception text cut to 500
\* characters, and the tick returns True.
C10_FailureCapturedOnJob ==
    [][\A w \in Workers :
        Raises(w) =>
            /\ result'[w] = "true"
            /\ loc[w].job \in DOMAIN queue'
            /\ queue'[loc[w].job].status = "failed"
            /\ queue'[loc[w].job].finished_at /= NULL
            /\ queue'[loc[w].job].error_message.kind = loc'[w].err.kind
            /\ queue'[loc[w].job].error_message.len =
                  Min(loc'[w].err.len, ERROR_MESSAGE_MAX)
      ]_vars

\* C11 (SpecMatch): find_match is symmetric on the start-time rule: for two
\* activities of one user whose start instants differ by at most 5 minutes,
\* whatever their time of day or UTC offset, each is matched against a store
\* that holds the other.
C11_StartRuleSymmetric ==
    (obs.kind = "match"
        /\ Abs(obs.a.start_date.t - obs.b.start_date.t) <= START_WINDOW_SEC)
    => (obs.ab /\ obs.ba)

\* field f is present on both sides / is within pct per cent on both sides
BothHave(a, b, f) == a[f] /= NULL /\ b[f] /= NULL
InTolerance(a, b, f, pct) == Abs(a[f] - b[f]) * 100 <= pct * Max(a[f], b[f])

\* rule (b) of find_match as specified: every field present on both sides is
\* within its tolerance, and at least one field is present on both sides
RuleB(a, b) ==
    /\ BothHave(a, b, "duration_sec") => InTolerance(a, b, "duration_sec", 2)
    /\ BothHave(a, b, "tss") => InTolerance(a, b, "tss", 5)
    /\ BothHave(a, b, "distance_m") => InTolerance(a, b, "distance_m", 2)
    /\ \E f \in {"duration_sec", "tss", "distance_m"} : BothHave(a, b, f)

\* the stored start of a lies on the calendar day of candidate b
OnDayOf(a, b) ==
    /\ a.start_date.t >= DayStart(b.start_date)
    /\ a.start_date.t < DayStart(b.start_date) + DAY_SEC

\* C12 (SpecMatch): for a candidate b and a stored row a of the same day whose
\* starts differ by more than 5 minutes, find_match accepts the row exactly
\* when every one of duration (2%), tss (5%) and distance (2%) present on both
\* sides is within tolerance and at least one is present on both sides; a field
\* present on one side only does not prevent the match.
C12_ToleranceRule ==
    (obs.kind = "match"
        /\ Abs(obs.a.start_date.t - obs.b.start_date.t) > START_WINDOW_SEC
        /\ OnDayOf(obs.a, obs.b))
    => (obs.ab <=> RuleB(obs.a, obs.b))

\* the rows of the 08:00 session: those starting within 5 minutes of 08:00
SessionRows == {i \in DOMAIN workouts :
                  Abs(workouts[i].start_date - At(8, 0, 0).t) <= START_WINDOW_SEC}

\* C13 (SpecStore): after the FIT upload {08:00, 3600 s, 10000 m} followed by a
\* platform sync delivering {08:02, 3660 s, tss 65}, the store holds exactly one
\* Workout of that session, with duration_sec 3660, distance_m 10000, tss 65
\* and source "intervals".
C13_FitThenPlatform ==
    (Len(ingested) = 2
        /\ ingested[1].op = "fit" /\ ingested[1].key = <<"sha-a">>
        /\ ingested[2].op = "sync" /\ ingested[2].key = <<"i1">>)
    => /\ Cardinality(SessionRows) = 1
       /\ \A i \in SessionRows :
             /\ workouts[i].duration_sec = 3660
             /\ workouts[i].distance_m = 10000
             /\ workouts[i].tss = 65
             /\ workouts[i].source = "intervals"

\* C14 (SpecOrder): for two observations A and B of the same session that come
\* from different sources (manual entry, FIT upload, platform sync), ingesting
\* A then B leaves the same rows (scalar fields, source, raw bag) and the same
\* number of rows as ingesting B then A.
C14_MergeCommutes == obs.kind = "order" => obs.ab = obs.ba

\* C15 (SpecMerge): merging is idempotent: merging the same incoming values
\* into a row a second time changes nothing, on the scalar fields (name, type,
\* duration_sec, distance_m, tss, notes, fit_checksum, source) and on the raw
\* bag with its nested dictionaries and its series.
C15_MergeIdempotent == obs.kind = "merge" => obs.twice = obs.once

\* the keys of a raw bag, and the series it holds
RawKeys(j) == IF j.t = "dict" THEN DOMAIN j.v ELSE {}
HasSeries(j) == "series" \in RawKeys(j) /\ j.v["series"].t = "list"
SeriesOf(j) == IF HasSeries(j) THEN j.v["series"].v ELSE <<>>

\* C15 witness: a merge that replaced the existing series and overwrote a
\* scalar, and left the row as it was when repeated
C15_Witness ==
    /\ obs.kind = "merge"
    /\ HasSeries(obs.a.raw) /\ HasSeries(obs.b.raw)
    /\ SeriesOf(obs.once.raw) /= SeriesOf(obs.a.raw)
    /\ obs.b.tss /= NULL /\ obs.a.tss /= NULL
    /\ obs.twice = obs.once

TextFields == {"name", "type", "notes", "fit_checksum", "source"}
NumFields == {"duration_sec", "distance_m", "tss"}

\* C16 (SpecMerge): a merge never reduces information: every scalar field of
\* the merged row is the incoming value when that is non-null and the existing
\* one otherwise; every key of the existing raw bag is still there; the raw
\* bag has a series whenever the existing or the incoming bag had one, and the
\* existing series is replaced only by a non-empty incoming series.
C16_MergeKeeps ==
    obs.kind = "merge" =>
        LET a == obs.a
            b == obs.b
            r == obs.once
        IN /\ \A f \in TextFields : r[f] = IF b[f] /= NoText THEN b[f] ELSE a[f]
           /\ \A f \in NumFields : r[f] = IF b[f] /= NULL THEN b[f] ELSE a[f]
           /\ RawKeys(a.raw) \subseteq RawKeys(r.raw)
           /\ (HasSeries(a.raw) \/ HasSeries(b.raw)) => HasSeries(r.raw)
           /\ (HasSeries(a.raw) /\ SeriesOf(r.raw) /= SeriesOf(a.raw))
                 => (HasSeries(b.raw) /\ SeriesOf(b.raw) /= <<>>
                     /\ SeriesOf(r.raw) = SeriesOf(b.raw))

\* C16 witness: a richer existing series survives an incoming bag without one,
\* while an incoming scalar overwrites and a null one leaves the field alone
C16_Witness ==
    /\ obs.kind = "merge"
    /\ SeriesOf(obs.a.raw) = <<1, 2>> /\ ~HasSeries(obs.b.raw)
    /\ obs.b.raw.t = "dict" /\ RawKeys(obs.b.raw) /= {}
    /\ SeriesOf(obs.once.raw) = <<1, 2>>
    /\ obs.a.tss = 60 /\ obs.b.tss = 65 /\ obs.once.tss = 65
    /\ obs.a.name = "Run" /\ obs.b.name = NoText /\ obs.once.name = "Run"

\* C17 (SpecStore): in every reachable state of the store, whatever the
\* interleaving of manual creates, FIT uploads (two uploads of one file may run
\* at once) and platform syncs, no two rows of a user share a non-null
\* external_id, and no two share a non-null fit_checksum.
C17_UniqueKeys ==
    \A i, j \in DOMAIN workouts :
        (i /= j /\ workouts[i].user = workouts[j].user) =>
            /\ ~(workouts[i].external_id /= NoText
                 /\ workouts[i].external_id = workouts[j].external_id)
            /\ ~(workouts[i].fit_checksum /= NoText
                 /\ workouts[i].fit_checksum = workouts[j].fit_checksum)

\* the start of the first workout stored, and the later ingestions
FirstStart == ingested[1].start.t
Later == 2 .. Len(ingested)
AllMerged ==
    /\ Cardinality(DOMAIN workouts) = 1
    /\ \A k \in Later : ingested[k].merged /\ ingested[k].id = ingested[1].id

LostWorkouts == DOMAIN workouts \ DOMAIN workouts'
LostActivities == activities \ activities'

\* C19 (SpecSync): no sync removes a stored row. A step of the platform sync,
\* of an interactive Strava sync or of a queue tick keeps every workout row
\* and every synced activity row it found; a workout row disappears only in
\* the user's own delete of that row, and synced activity rows disappear only
\* in the teardown that also removes their user's credentials (revocation).
C19_SyncKeepsRows ==
    [][/\ LostWorkouts /= {} =>
             /\ ingested' = Append(ingested, ingested'[Len(ingested')])
             /\ ingested'[Len(ingested')].op = "delete"
             /\ LostWorkouts = {ingested'[Len(ingested')].id}
       /\ \A r \in LostActivities :
             r[1] \in DOMAIN creds /\ r[1] \notin DOMAIN creds'
      ]_vars

\* C19 witness: a platform sync found the row an earlier sync had stored,
\* merged into it and left it in place, and a queue tick has finished a job
\* with the synced activity rows in place
C19_Witness ==
    /\ Len(ingested) >= 2
    /\ ingested[1].op = "sync" /\ ~ingested[1].merged
    /\ ingested[2].op = "sync" /\ ingested[2].merged
    /\ ingested[2].id = ingested[1].id
    /\ ingested[1].id \in DOMAIN workouts
    /\ activities /= {}
    /\ \E j \in DOMAIN queue : queue[j].status = "done"

\* the workouts of the probed table inside the lookback window
InWindow ==
    {i \in DOMAIN obs.ws :
        /\ DateOf(obs.ws[i].start_date) >= AsOf - obs.from_days
        /\ DateOf(obs.ws[i].start_date) <= AsOf}

\* C20 (SpecFitness): compute_fitness_from_workouts returns None exactly when
\* no workout of the user inside the lookback window has a non-null tss; a
\* window holding only workouts without tss yields None, not zeros.
C20_NoneWithoutTss ==
    obs.kind = "fitness" =>
        (obs.result = NoFitness <=> ~ \E i \in InWindow : obs.ws[i].tss /= NULL)

\* the days of the probed window that have a workout with a tss, and what was
\* recorded on a day (a workout without tss adds nothing)
TssDays == {DateOf(obs.ws[i].start_date) : i \in {j \in InWindow : obs.ws[j].tss /= NULL}}
DayTss(d) ==
    SumOf([i \in InWindow |-> IF obs.ws[i].tss /= NULL THEN obs.ws[i].tss ELSE 0],
          {i \in InWindow : DateOf(obs.ws[i].start_date) = d})

\* n steps x' = x + (tss - x) / tau from 0 over the days first .. last, written
\* out: the sum of tss(d) * (tau - 1)^(last - d) / tau^(last - d + 1), as the
\* numerator over tau^(last - first + 1)
RECURSIVE EmaSum(_, _, _, _)
EmaSum(tau, first, d, last) ==
    IF d > last THEN 0
    ELSE DayTss(d) * Pow(tau - 1, last - d) * Pow(tau, d - first)
         + EmaSum(tau, first, d + 1, last)

\* C21 (SpecFitness): when the window has recorded tss, the result is that of
\* one EMA step per calendar day from the first day with recorded tss through
\* as_of inclusive, from ctl = atl = 0, the tss of a day being the sum over its
\* workouts and a day without workout counting as 0; tsb is ctl - atl at
\* as_of (each value rounded to a tenth on return).
C21_EmaPerDay ==
    (obs.kind = "fitness" /\ TssDays /= {}) =>
        LET first == CHOOSE d \in TssDays : \A e \in TssDays : d <= e
            n == AsOf - first + 1
            c == EmaSum(CTL_TAU, first, first, AsOf)
            a == EmaSum(ATL_TAU, first, first, AsOf)
        IN /\ obs.result.ctl = RoundTenths(c, Pow(CTL_TAU, n))
           /\ obs.result.atl = RoundTenths(a, Pow(ATL_TAU, n))
           /\ obs.result.tsb =
                 RoundTenths(c - a * Pow(CTL_TAU \div ATL_TAU, n), Pow(CTL_TAU, n))
           /\ obs.result.date = AsOf

\* C21 witness: two workouts on the day two days before as_of (142 tss in
\* all), then two rest days: ctl 3.2, atl 14.9, tsb -11.7
C21_Witness ==
    /\ obs.kind = "fitness"
    /\ obs.from_days = 2
    /\ Len(obs.ws) = 2
    /\ \A i \in {1, 2} : DateOf(obs.ws[i].start_date) = AsOf - 2
    /\ obs.ws[1].tss = 42 /\ obs.ws[2].tss = 100
    /\ obs.result = [ctl |-> 32, atl |-> 149, tsb |-> 0 - 117, date |-> AsOf]

\* the dates for which the platform has supplied a CTL value
SuppliedDates == {d \in DOMAIN obs.wellness : obs.wellness[d].ctl /= NULL}

\* C22 (SpecGetFitness): get_fitness returns the platform's CTL/ATL/TSB of the
\* most recent date that has one when the user is linked and there is such a
\* date; in every other case (not linked, or linked with no platform value) it
\* returns the locally computed result.
C22_PlatformElseComputed ==
    obs.kind = "get_fitness" =>
        IF obs.linked /\ SuppliedDates /= {}
        THEN /\ obs.result.date \in SuppliedDates
             /\ \A d \in SuppliedDates : d <= obs.result.date
             /\ obs.result.ctl = obs.wellness[obs.result.date].ctl
        ELSE obs.result = obs.computed

ReportsZero(v) == v = JNum(0) \/ (v.t = "str" /\ parse_float(v) = 0)

SaysNothing(v) == v.t = "null" \/ (v.t = "str" /\ parse_float(v) = NULL)

\* C24: the normalization keeps zero and unknown apart: a payload whose
\* duration (distance) fields are all missing or unparsable gives a null
\* duration (distance), and a payload whose moving time (distance) is reported
\* as 0 gives the duration (distance) 0, not null and not another field's value.
C24_ZeroIsNotUnknown ==
    obs.kind = "normalize" =>
       LET raw == obs.raw
           row == obs.row
       IN /\ (\A f \in {"moving_time", "movingTime", "duration", "length"} :
                 SaysNothing(raw[f])) => row.duration_sec = NULL
          /\ (SaysNothing(raw.distance) /\ SaysNothing(raw.length)) => row.distance_m = NULL
          /\ ReportsZero(raw.moving_time) => row.duration_sec = 0
          /\ ReportsZero(raw.distance) => row.distance_m = 0

\* C25: when the request of page k fails (timeout or 5xx), the activities of
\* the pages 1..k-1 fetched in the same run are in the store.
C25_EarlierPagesKept ==
    \A a \in Actors :
       (pc[a] = "ret" /\ loc[a].err.kind = "http5xx" /\ loc[a].all /= <<>>)
          => Rows(loc[a].user, loc[a].all) \subseteq activities

\* C26: one malformed record (no id, no start date, a failed detail fetch)
\* does not abort the batch: after a sync run every activity of the fetched
\* list that has an id and a start date is in the store.
C26_OthersStillWritten ==
    obs.kind = "batch" =>
       \A i \in DOMAIN obs.acts :
          (obs.acts[i].id /= NoText /\ obs.acts[i].start_date /= NULL)
             => ByExternalId(workouts, 1, obs.acts[i].id) /= {}

\* the pages of a fetched list are numbered 1, 2, 3, ... and all are full
FullPagesInOrder(all) == \A i \in DOMAIN all : all[i] = <<i, PER_PAGE>>

\* C27: get_all_activities_paginated fetches the pages 1, 2, 3, ... in order
\* and ends: while it loops every page fetched so far was full and the next
\* page is numbered one more, within the provider's last page; a turn of the
\* loop made while the limiter refuses makes no request, raises nothing and
\* hands what was fetched to the upsert; a turn made while the limiter allows
\* makes exactly one request, and its own limiter check cannot refuse it;
\* the list handed over is the fetched pages in order, the last one short.
C27_Pagination ==
    [][\A a \in Actors :
          /\ pc'[a] = "page" =>
                /\ FullPagesInOrder(loc'[a].all)
                /\ loc'[a].page = Len(loc'[a].all) + 1
                /\ loc'[a].page <= MaxPages
          /\ (pc[a] = "page" /\ pc'[a] = "page" /\ loc'[a] /= loc[a]) =>
                loc'[a].page = loc[a].page + 1
          /\ (pc[a] = "page" /\ pc'[a] = "ret") =>
                /\ loc'[a].err.kind \in {"none", "http401", "http5xx"}
                /\ loc'[a].err = NoError =>
                      /\ activities' = activities \cup Rows(loc[a].user, loc'[a].all)
                      /\ \A i \in DOMAIN loc'[a].all :
                            /\ loc'[a].all[i][1] = i
                            /\ i < Len(loc'[a].all) => loc'[a].all[i][2] = PER_PAGE
                            /\ loc'[a].all[i][2] > 0
                /\ ~strava_can_make_request =>
                      /\ loc'[a].err = NoError
                      /\ loc'[a].all = loc[a].all
                      /\ calls' = calls
                /\ strava_can_make_request =>
                      /\ calls' = RecordRequest(calls, now)
                      /\ UnderThreshold(TrimUsage15(TrimUsage15(usage15, now), now),
                                        TrimUsageDaily(TrimUsageDaily(usageDaily, now), now))
      ]_vars

\* two pages were fetched, the second one short, and both are stored
C27_Witness ==
    \E a \in Actors :
       /\ pc[a] = "ret"
       /\ loc[a].err = NoError
       /\ loc[a].all = <<<<1, PER_PAGE>>, <<2, 1>>>>
       /\ Rows(loc[a].user, loc[a].all) \subseteq activities

\* C28: the platform sync is an idempotent upsert: a second run on the same
\* response leaves the rows, their provider columns and their payload as the
\* first run left them, and a run never replaces a stored non-null column by
\* null.
C28_IdempotentUpsert ==
    (obs.kind = "strava" /\ obs.n = 2) =>
       /\ obs.items = obs.prev =>
             /\ DOMAIN obs.table = DOMAIN obs.before
             /\ \A k \in DOMAIN obs.table :
                   /\ obs.table[k].raw = obs.before[k].raw
                   /\ \A c \in StravaColumns : obs.table[k][c] = obs.before[k][c]
       /\ \A k \in DOMAIN obs.before :
             /\ k \in DOMAIN obs.table
             /\ obs.before[k].name /= NoText => obs.table[k].name /= NoText
             /\ \A c \in StravaColumns \ {"name"} :
                   obs.before[k][c] /= NULL => obs.table[k][c] /= NULL

JobIds == 1..MaxJobs

JobIs(j, statuses) == j \in DOMAIN queue /\ queue[j].status \in statuses

\* the run is not cut short by the bound on activity-list requests
BudgetLeft == ncalls < MaxCalls

\* C29: with ticks recurring and the limiter allowing calls again and again
\* (and the bound on requests not reached), every job inserted as pending is
\* done or failed in the end, and no job stays running forever.
C29_EveryJobProcessed ==
    ([]<>strava_can_make_request /\ []<>BudgetLeft) =>
       \A j \in JobIds :
          /\ [](JobIs(j, {"pending"}) => <>JobIs(j, {"done", "failed"}))
          /\ [](JobIs(j, {"running"}) => <>~JobIs(j, {"running"}))

\* stored row r qualifies for candidate b of user uid: it is the user's, its
\* start lies on the candidate's calendar day, and rule (a) (starts at most
\* 5 minutes apart) or rule (b) holds
Qualifies(r, uid, b) ==
    /\ r.user = uid
    /\ r.start_date >= DayStart(b.start_date)
    /\ r.start_date < DayStart(b.start_date) + DAY_SEC
    /\ \/ Abs(r.start_date - b.start_date.t) <= START_WINDOW_SEC
       \/ RuleB(r, b)

\* C30: every row find_match may return is the querying user's, starts on the
\* candidate's calendar day and satisfies rule (a) or rule (b); when no stored
\* row qualifies, find_match returns None and create_workout inserts a new row
\* and changes no stored one.
C30_MatchIsBounded ==
    obs.kind = "find" =>
       /\ \A i \in obs.found : Qualifies(obs.ws[i], 1, obs.b)
       /\ (\A i \in DOMAIN obs.ws : ~Qualifies(obs.ws[i], 1, obs.b)) =>
             /\ obs.found = {}
             /\ \A o \in obs.created :
                   /\ ~o.merged
                   /\ o.id \notin DOMAIN obs.ws
                   /\ DOMAIN o.workouts = DOMAIN obs.ws \cup {o.id}
                   /\ \A i \in DOMAIN obs.ws : o.workouts[i] = obs.ws[i]
                   /\ o.workouts[o.id].user = 1

\* a row is returned although another user's row starts within 5 minutes of
\* the candidate on its day
C30_Witness ==
    /\ obs.kind = "find"
    /\ obs.found /= {}
    /\ \E j \in DOMAIN obs.ws :
          /\ obs.ws[j].user = 2
          /\ Abs(obs.ws[j].start_date - obs.b.start_date.t) <= START_WINDOW_SEC

\* nothing qualifies while another user's row is within 5 minutes: a new row
C30_InsertWitness ==
    /\ obs.kind = "find"
    /\ obs.found = {}
    /\ \A o \in obs.created : ~o.merged
    /\ \E j \in DOMAIN obs.ws :
          /\ obs.ws[j].user = 2
          /\ Abs(obs.ws[j].start_date - obs.b.start_date.t) <= START_WINDOW_SEC

====
